---- MODULE Spec2Model ----
(***************************************************************************)
(* A model of the obd2 crate: the ELM327 framer and adapter session        *)
(* (src/src/device/elm327.rs, src/src/device/mod.rs) and the OBD-II        *)
(* command dispatcher (src/src/interface.rs).                              *)
(*                                                                         *)
(* Bytes are integers 0..255; byte strings and text are sequences of       *)
(* bytes.  Option<T> is a sequence of length at most one: None is <<>>,    *)
(* Some(x) is <<x>>.  Result<T> is a record [tag, val] whose tag is "Ok",  *)
(* the name of the error variant, or "Panic" for an unwinding todo!().     *)
(***************************************************************************)
EXTENDS Integers, Sequences, FiniteSets, TLC

\* ------------------------------------------------------------------ bounds
\* Number of bytes the transport delivers unsolicited in one behaviour.
MaxBytes == 3
\* Number of send_cmd and cmd calls in one behaviour.
MaxOps == 2
\* Number of decoder calls in one behaviour.
MaxDecodes == 1
\* Number of reset and find_baud_rate_divisor calls in one behaviour.
MaxMaint == 1
\* Number of calls of the typed accessors in one behaviour.
MaxReads == 1

\* ------------------------------------------------------- program constants
NUL == 0
LF == 10
CR == 13
PROMPT == 62
COLON == 58
SPACE == 32
\* The response bit OR-ed onto the service byte of a reply.
RESPONSE_BIT == 64
\* The modulus of the line index of a multi-line reply.
IDX_MOD == 16
\* The baud rate Elm327::new opens the transport with.
INITIAL_BAUD == 38400
\* The sleep of reset between the IC reset and the protocol reset, in ms.
SETTLE_MS == 500

None == <<>>
Some(x) == <<x>>

Ok(v) == [tag |-> "Ok", val |-> v]
Err(t) == [tag |-> t, val |-> None]

\* ------------------------------------------------------------------ Framer

\* A place in the transport's stream where the call of read() that meets it
\* returns an error; the reads before it return the bytes before it.
FAIL == -1

\* read_into_queue: every byte the transport holds is appended to the queue;
\* a read that fails ends the call with its error, the bytes of the reads
\* before it already in the queue.
read_into_queue(q, w) ==
    LET fails == {i \in 1..Len(w) : w[i] = FAIL}
    IN IF fails = {} THEN [buffer |-> q \o w, wire |-> <<>>, err |-> FALSE]
       ELSE LET i == CHOOSE k \in fails : \A j \in fails : k <= j
            IN [buffer |-> q \o SubSeq(w, 1, i - 1),
                wire |-> SubSeq(w, i + 1, Len(w)), err |-> TRUE]

\* get_byte that hands a NUL on like any other byte.
get_byte_keeps_nul(q, w) ==
    IF q # <<>>
    THEN [b |-> Some(Head(q)), buffer |-> Tail(q), wire |-> w, err |-> FALSE]
    ELSE LET r == read_into_queue(q, w)
         IN [b |-> None, buffer |-> r.buffer, wire |-> r.wire, err |-> r.err]

\* get_byte that takes a failed read for no byte.
get_byte_retry(q, w) ==
    IF q # <<>>
    THEN [b |-> IF Head(q) = NUL THEN None ELSE Some(Head(q)),
          buffer |-> Tail(q), wire |-> w, err |-> FALSE]
    ELSE LET r == read_into_queue(q, w)
         IN [b |-> None, buffer |-> r.buffer, wire |-> r.wire, err |-> FALSE]

\* get_byte: pop the front of the queue; a NUL yields no byte; an empty queue
\* is refilled from the transport and yields no byte in this call; the error
\* of a failed read is returned.
get_byte(q, w) ==
    IF q # <<>>
    THEN [b |-> IF Head(q) = NUL THEN None ELSE Some(Head(q)),
          buffer |-> Tail(q), wire |-> w, err |-> FALSE]
    ELSE LET r == read_into_queue(q, w)
         IN [b |-> None, buffer |-> r.buffer, wire |-> r.wire, err |-> r.err]

\* translate without the normalisation of CR: every byte but a bare newline
\* is pushed as it came.
translate_keeps_cr(b) == IF b = LF THEN None ELSE Some(b)

\* The byte translation of get_until's loop: CR becomes a newline, a bare
\* newline gives nothing to push.
translate(b) ==
    IF b = CR THEN Some(LF)
    ELSE IF b = LF THEN None
    ELSE Some(b)

\* An iteration that, having found end_byte, also takes the byte that
\* follows it in the queue.
loop_step_greedy(st, end_byte) ==
    LET g == get_byte(st.buffer, st.wire)
        t == IF g.b = None THEN None ELSE translate(g.b[1])
    IN [buffer |-> IF t = Some(end_byte) /\ g.buffer # <<>>
                   THEN Tail(g.buffer) ELSE g.buffer,
        wire |-> g.wire,
        buf |-> IF t = None THEN st.buf ELSE Append(st.buf, t[1]),
        found |-> t = Some(end_byte), err |-> g.err, n |-> st.n + 1]

\* An iteration that leaves the byte it found end_byte in at the front of the
\* queue.
loop_step_unpopped(st, end_byte) ==
    LET g == get_byte(st.buffer, st.wire)
        t == IF g.b = None THEN None ELSE translate(g.b[1])
    IN [buffer |-> IF t = Some(end_byte) THEN <<end_byte>> \o g.buffer
                   ELSE g.buffer,
        wire |-> g.wire,
        buf |-> IF t = None THEN st.buf ELSE Append(st.buf, t[1]),
        found |-> t = Some(end_byte), err |-> g.err, n |-> st.n + 1]

\* One iteration of get_until's loop on the state st = [buffer, wire, buf,
\* found, err, n]: get_byte, the translation, the push and the test for
\* end_byte; err says that get_byte returned an error, n counts the
\* iterations.
loop_step(st, end_byte) ==
    LET g == get_byte(st.buffer, st.wire)
        t == IF g.b = None THEN None ELSE translate(g.b[1])
    IN [buffer |-> g.buffer, wire |-> g.wire,
        buf |-> IF t = None THEN st.buf ELSE Append(st.buf, t[1]),
        found |-> t = Some(end_byte), err |-> g.err, n |-> st.n + 1]

\* The while loop of get_until.  fuel is the number of times the test
\* start.elapsed() < TIMEOUT still succeeds; with nothing left in the queue
\* and in the transport the loop spins without effect until the deadline.
RECURSIVE get_until_loop(_, _, _)
get_until_loop(st, end_byte, fuel) ==
    IF st.found \/ st.err \/ fuel = 0 \/ (st.buffer = <<>> /\ st.wire = <<>>)
    THEN st
    ELSE get_until_loop(loop_step(st, end_byte), end_byte, fuel - 1)

\* The push-back of an incomplete read: the bytes of buf (its last byte f
\* already popped) are pushed to the front in reverse, then f is pushed to
\* the front.
push_back(rest, f, q) == <<f>> \o rest \o q

\* get_until: the loop, then the match on buf.pop() (match_pop).  An empty
\* chunk with allow_empty false starts the read again, with a new deadline.
\* l is the state the loop ended in; acc and remq record what the last loop
\* had accumulated and had left in the queue when the deadline passed.
\* spent is the time the call took, in loop iterations: the iterations of a
\* loop that found end_byte or met an error, the whole budget fuel of a loop
\* that ran into its deadline, summed over the restarts.
RECURSIVE get_until(_, _, _, _, _)
RECURSIVE match_pop(_, _, _, _)
match_pop(l, end_byte, allow_empty, fuel) ==
    IF l.err
    THEN [ret |-> Err("IO"), buffer |-> l.buffer, wire |-> l.wire,
          acc |-> <<>>, remq |-> l.buffer, spent |-> l.n]
    ELSE IF l.buf = <<>>
    THEN [ret |-> Ok(None), buffer |-> l.buffer, wire |-> l.wire,
          acc |-> <<>>, remq |-> l.buffer, spent |-> fuel]
    ELSE LET n == Len(l.buf)
             f == l.buf[n]
             rest == SubSeq(l.buf, 1, n - 1)
         IN IF f = end_byte
            THEN IF allow_empty \/ rest # <<>>
                 THEN [ret |-> Ok(Some(rest)), buffer |-> l.buffer,
                       wire |-> l.wire, acc |-> <<>>, remq |-> l.buffer,
                       spent |-> l.n]
                 ELSE [get_until(l.buffer, l.wire, end_byte, allow_empty, fuel)
                          EXCEPT !.spent = @ + l.n]
            ELSE [ret |-> Ok(None), buffer |-> push_back(rest, f, l.buffer),
                  wire |-> l.wire, acc |-> l.buf, remq |-> l.buffer,
                  spent |-> fuel]

get_until(q, w, end_byte, allow_empty, fuel) ==
    match_pop(get_until_loop([buffer |-> q, wire |-> w, buf |-> <<>>,
                              found |-> FALSE, err |-> FALSE, n |-> 0],
                             end_byte, fuel),
              end_byte, allow_empty, fuel)

\* get_line that lets an empty line through.
get_line_allow_empty(q, w, fuel) == get_until(q, w, LF, TRUE, fuel)

get_line(q, w, fuel) == get_until(q, w, LF, FALSE, fuel)

get_response(q, w, fuel) == get_until(q, w, PROMPT, TRUE, fuel)

\* ----------------------------------------------------------- Adapter Session

\* One event of a call: a write_all to the transport with its bytes, or the
\* start of a get_line or get_response.
WriteEv(bytes) == [e |-> "write", bytes |-> bytes]
ReadEv(name) == [e |-> name, bytes |-> <<>>]

\* The hex digit of a nibble in lower case, as format!("{:02x}") prints it.
HexDigit_lower(n) == IF n < 10 THEN 48 + n ELSE 87 + n

\* The upper-case hex digit of a nibble, as format!("{:02X}") prints it.
HexDigit(n) == IF n < 10 THEN 48 + n ELSE 55 + n

\* format!("{:02X}", v) of every byte of data, concatenated (send_cmd).
RECURSIVE HexText(_)
HexText(data) ==
    IF data = <<>> THEN <<>>
    ELSE <<HexDigit(Head(data) \div 16), HexDigit(Head(data) % 16)>>
         \o HexText(Tail(data))

\* The comparison of send_serial_str that takes any line for the echo.
check_echo_any_line(r, data) ==
    [ret |-> IF r.ret.tag # "Ok" THEN r.ret
             ELSE IF r.ret.val # None THEN Ok(None) ELSE Err("Communication"),
     buffer |-> r.buffer, wire |-> r.wire, line |-> r.ret.val,
     ev |-> <<WriteEv(data), WriteEv(<<CR, LF>>), ReadEv("get_line")>>]

\* The end of send_serial_str: the line r that get_line read is compared
\* with the text; the events of the call are its two writes and the read.
check_echo(r, data) ==
    [ret |-> IF r.ret.tag # "Ok" THEN r.ret
             ELSE IF r.ret.val = Some(data) THEN Ok(None)
             ELSE Err("Communication"),
     buffer |-> r.buffer, wire |-> r.wire, line |-> r.ret.val,
     ev |-> <<WriteEv(data), WriteEv(<<CR, LF>>), ReadEv("get_line")>>]

\* send_serial_str: write the text, write CRLF, read the echo with get_line
\* and compare it with the text.  out is what the transport receives from
\* the adapter between the writes and the read.
send_serial_str(q, w, data, out, fuel) ==
    check_echo(get_line(q, w \o out, fuel), data)

\* send_cmd: the command bytes as hex text, sent with send_serial_str.
send_cmd(q, w, data, out, fuel) == send_serial_str(q, w, HexText(data), out, fuel)

\* String::from_utf8(resp).ok(): the byte domain of the model holds ASCII
\* and the byte 0xFF, which no UTF-8 text contains.
from_utf8(resp) ==
    IF \A i \in 1..Len(resp) : resp[i] < 128 THEN Some(resp) ELSE None

\* The result of cmd after the send s and the read g of get_response: the
\* reply as a String, or nothing.
response_string(s, g) ==
    [ret |-> IF g.ret.tag # "Ok" THEN g.ret
             ELSE Ok(IF g.ret.val = None THEN None ELSE from_utf8(g.ret.val[1])),
     buffer |-> g.buffer, wire |-> g.wire, line |-> s.line,
     ev |-> Append(s.ev, ReadEv("get_response"))]

\* The tail of cmd without the ? on the send: get_response is called whether
\* or not the echo matched, and the error of the send is returned after it.
with_response_always(s, fuel) ==
    [response_string(s, get_response(s.buffer, s.wire, fuel))
        EXCEPT !.ret = IF s.ret.tag # "Ok" THEN s.ret ELSE @]

\* The tail of cmd and serial_cmd: after a successful send, get_response and
\* the conversion of the reply to a String.
with_response(s, fuel) ==
    IF s.ret.tag # "Ok" THEN s
    ELSE response_string(s, get_response(s.buffer, s.wire, fuel))

\* Obd2BaseDevice::cmd
cmd(q, w, data, out, fuel) == with_response(send_cmd(q, w, data, out, fuel), fuel)

\* Elm327::serial_cmd
serial_cmd(q, w, text, out, fuel) ==
    with_response(send_serial_str(q, w, text, out, fuel), fuel)

\* ------------------------------------------------------ Session maintenance

\* Events of the maintenance calls: a purge of the transport's buffers, a
\* thread::sleep of ms milliseconds.
PurgeEv == [e |-> "purge", bytes |-> <<>>]
SleepEv(ms) == [e |-> "sleep", bytes |-> <<ms>>]

\* "ATZ", "ATSP0"
ATZ == <<65, 84, 90>>
ATSP0 == <<65, 84, 83, 80, 48>>

\* The ? operator between two steps of a call: after the step that gave
\* prev failed nothing more is done; otherwise the outcome is that of step,
\* the events of both in order.
Try(prev, step) ==
    IF prev.ret.tag # "Ok" THEN prev
    ELSE [ret |-> step.ret, buffer |-> step.buffer, wire |-> step.wire,
          ev |-> prev.ev \o step.ev]

\* flush_buffers: usb_purge_buffers drops what the transport holds; ok says
\* whether the transport carries the purge out.
flush_buffers(q, w, ok) ==
    [ret |-> IF ok THEN Ok(None) ELSE Err("Ftdi"), buffer |-> q,
     wire |-> IF ok THEN <<>> ELSE w, ev |-> <<PurgeEv>>]

\* A get_response whose chunk is only logged.
response_logged(g) ==
    [ret |-> IF g.ret.tag # "Ok" THEN g.ret ELSE Ok(None),
     buffer |-> g.buffer, wire |-> g.wire, ev |-> <<ReadEv("get_response")>>]

\* reset_ic that does not read the reply of ATZ.
reset_ic_unread(s, fuel) == s

\* reset_ic after send_serial_str("ATZ") returned s.
reset_ic_result(s, fuel) ==
    Try(s, response_logged(get_response(s.buffer, s.wire, fuel)))

\* Elm327::reset_ic
reset_ic(q, w, out, fuel) ==
    reset_ic_result(send_serial_str(q, w, ATZ, out, fuel), fuel)

\* reset_protocol after serial_cmd("ATSP0") returned s: the probe request
\* 01 00, answered with probe.
probe_protocol(s, probe, fuel) ==
    Try(s, cmd(s.buffer, s.wire, <<1, 0>>, probe, fuel))

\* The flush_buffers that ends reset_protocol.
flush_after(s, ok) == Try(s, flush_buffers(s.buffer, s.wire, ok))

\* Elm327::reset_protocol
reset_protocol(q, w, sp, probe, ok, fuel) ==
    flush_after(probe_protocol(serial_cmd(q, w, ATSP0, sp, fuel), probe, fuel), ok)

\* The steps of reset after flush_buffers returned p: reset_ic, the sleep,
\* reset_protocol.  in holds what the adapter answers to ATZ, ATSP0 and the
\* probe, and whether the two purges are carried out.
\* The reset_ic step without the ? operator: a failure of reset_ic is
\* dropped.
reset_ic_step_unchecked(p, in, fuel) ==
    [Try(p, reset_ic(p.buffer, p.wire, in.atz, fuel)) EXCEPT !.ret = Ok(None)]

reset_ic_step(p, in, fuel) == Try(p, reset_ic(p.buffer, p.wire, in.atz, fuel))

sleep_step(p) ==
    Try(p, [ret |-> Ok(None), buffer |-> p.buffer, wire |-> p.wire,
            ev |-> <<SleepEv(SETTLE_MS)>>])

reset_protocol_step(p, in, fuel) ==
    Try(p, reset_protocol(p.buffer, p.wire, in.sp, in.probe, in.purge2, fuel))

\* Elm327::reset
reset(q, w, in, fuel) ==
    reset_protocol_step(
        sleep_step(reset_ic_step(flush_buffers(q, w, in.purge1), in, fuel)),
        in, fuel)

\* "OK", "ELM327 v1.5", "ATBRD"
OK == <<79, 75>>
BANNER == <<69, 76, 77, 51, 50, 55, 32, 118, 49, 46, 53>>
ATBRD == <<65, 84, 66, 82, 68>>

\* The divisors find_baud_rate_divisor tries: 90..104 without 104.
FIRST_DIV == 90
END_DIV == 104
BAUD_BASE == 4000000

\* 4000000 / u32::from(div)
new_baud(div) == BAUD_BASE \div div

\* format!("ATBRD{:02X}", div)
brd_command(div) == ATBRD \o HexText(<<div>>)

\* A return of find_baud_rate_divisor (a panic included), and the end of
\* one turn of its loop: what the read g left of the queue and the
\* transport, the rate the transport is set to, the recorded baud_rate.
Exit(ret, g, r, baud) ==
    [ret |-> ret, buffer |-> g.buffer, wire |-> g.wire, rate |-> r,
     baud_rate |-> baud, done |-> TRUE, tried |-> <<>>]

Continue(g, r, baud) ==
    [ret |-> Ok(None), buffer |-> g.buffer, wire |-> g.wire, rate |-> r,
     baud_rate |-> baud, done |-> FALSE, tried |-> <<>>]

\* self.get_response()? at the end of a turn that rejected the divisor; the
\* transport has been set to r before it.
drain(g, r, baud) ==
    IF g.ret.tag # "Ok" THEN Exit(g.ret, g, r, baud) ELSE Continue(g, r, baud)

\* After send_serial_str("\r") succeeded: a is what
\* get_line().expect(..) read at the new rate.
confirm(a, div, baud, fuel) ==
    IF a.ret.tag # "Ok" THEN Exit(Err("Panic"), a, new_baud(div), baud)
    ELSE IF a.ret.val = Some(OK)
         THEN Exit(Ok(Some(<<div, new_baud(div)>>)), a, new_baud(div),
                   new_baud(div))
         ELSE drain(get_response(a.buffer, a.wire, fuel), baud, baud)

\* After the banner validated: s is what send_serial_str("\r") returned,
\* unwrapped with expect.
acknowledge(s, div, baud, fuel) ==
    IF s.ret.tag # "Ok" THEN Exit(Err("Panic"), s, new_baud(div), baud)
    ELSE confirm(get_line(s.buffer, s.wire, fuel), div, baud, fuel)

\* validate that records the new rate before the banner is read.
validate_recorded(v, div, baud, ack, fuel) ==
    IF v.ret.tag # "Ok" THEN Exit(v.ret, v, new_baud(div), new_baud(div))
    ELSE IF v.ret.val = Some(BANNER)
         THEN acknowledge(send_serial_str(v.buffer, v.wire, <<CR>>, ack, fuel),
                          div, new_baud(div), fuel)
         ELSE drain(get_response(v.buffer, v.wire, fuel), new_baud(div),
                    new_baud(div))

\* After set_baud_rate(new_baud): v is what get_line()? read at the new
\* rate, ack what the adapter sends after the "\r" of the host.
validate(v, div, baud, ack, fuel) ==
    IF v.ret.tag # "Ok" THEN Exit(v.ret, v, new_baud(div), baud)
    ELSE IF v.ret.val = Some(BANNER)
         THEN acknowledge(send_serial_str(v.buffer, v.wire, <<CR>>, ack, fuel),
                          div, baud, fuel)
         ELSE drain(get_response(v.buffer, v.wire, fuel), baud, baud)

\* After the echo of ATBRDhh: g is what get_line()? read, sc.banner what the
\* adapter sends once the host has switched the transport.
switch(g, div, r, baud, sc, fuel) ==
    IF g.ret.tag # "Ok" THEN Exit(g.ret, g, r, baud)
    ELSE IF g.ret.val = Some(OK)
         THEN validate(get_line(g.buffer, g.wire \o sc.banner, fuel), div,
                       baud, sc.ack, fuel)
         ELSE drain(get_response(g.buffer, g.wire, fuel), r, baud)

\* One turn of the loop after send_serial_str(ATBRDhh) returned s.
try_divisor(s, div, r, baud, sc, fuel) ==
    IF s.ret.tag # "Ok" THEN Exit(s.ret, s, r, baud)
    ELSE switch(get_line(s.buffer, s.wire, fuel), div, r, baud, sc, fuel)

\* The loop of find_baud_rate_divisor from div on; p is the state the turn
\* before left, script[d] what the adapter does in the turn of divisor d.
\* The turn of div left t; tried holds the divisors of the turns before.
turn_of(t, tried, div) == [t EXCEPT !.tried = Append(tried, div)]

RECURSIVE search(_, _, _, _)
search(p, div, script, fuel) ==
    IF p.done THEN p
    ELSE IF div >= END_DIV
         THEN [Exit(Ok(None), p, p.rate, p.baud_rate) EXCEPT !.tried = p.tried]
    ELSE search(turn_of(try_divisor(send_serial_str(p.buffer, p.wire,
                                                    brd_command(div),
                                                    script[div].brd, fuel),
                                    div, p.rate, p.baud_rate, script[div],
                                    fuel),
                        p.tried, div),
                div + 1, script, fuel)

\* Elm327::find_baud_rate_divisor
find_baud_rate_divisor(q, w, r, baud, script, fuel) ==
    search([ret |-> Ok(None), buffer |-> q, wire |-> w, rate |-> r,
            baud_rate |-> baud, done |-> FALSE, tried |-> <<>>],
           FIRST_DIV, script, fuel)

\* ------------------------------------------------------ Command Dispatcher

\* The least index of byte c in s, or 0.
IndexOf(s, c) ==
    LET hits == {i \in 1..Len(s) : s[i] = c}
    IN IF hits = {} THEN 0 ELSE CHOOSE i \in hits : \A j \in hits : i <= j

\* str::split(c): the pieces between the occurrences of c, empty ones kept.
RECURSIVE Split(_, _)
Split(s, c) ==
    LET i == IndexOf(s, c)
    IN IF i = 0 THEN <<s>>
       ELSE <<SubSeq(s, 1, i - 1)>> \o Split(SubSeq(s, i + 1, Len(s)), c)

\* str::contains(pat)
Contains(s, pat) ==
    \E i \in 1..(Len(s) - Len(pat) + 1) : SubSeq(s, i, i + Len(pat) - 1) = pat

\* str::split_once(c): the text before and after the first c.
split_once(l, c) ==
    LET i == IndexOf(l, c)
    IN IF i = 0 THEN None
       ELSE Some(<<SubSeq(l, 1, i - 1), SubSeq(l, i + 1, Len(l))>>)

\* The ASCII bytes char::is_whitespace accepts.
Whitespace == {9, 10, 11, 12, 13, SPACE}

\* str::split_whitespace: the maximal runs of bytes that are not whitespace.
RECURSIVE split_whitespace_from(_, _)
split_whitespace_from(s, cur) ==
    IF s = <<>> THEN (IF cur = <<>> THEN <<>> ELSE <<cur>>)
    ELSE IF Head(s) \in Whitespace
         THEN (IF cur = <<>> THEN <<>> ELSE <<cur>>)
              \o split_whitespace_from(Tail(s), <<>>)
         ELSE split_whitespace_from(Tail(s), Append(cur, Head(s)))

split_whitespace(s) == split_whitespace_from(s, <<>>)

\* char::to_digit(16), or -1.
HexVal(c) ==
    IF c \in 48..57 THEN c - 48
    ELSE IF c \in 65..70 THEN c - 55
    ELSE IF c \in 97..102 THEN c - 87
    ELSE -1

\* The value of a run of hex digits, or -1 when a byte is no hex digit.
RECURSIVE HexNumber(_, _)
HexNumber(digits, acc) ==
    IF digits = <<>> THEN acc
    ELSE IF HexVal(Head(digits)) < 0 THEN -1
    ELSE HexNumber(Tail(digits), 16 * acc + HexVal(Head(digits)))

\* u8::from_str_radix(s, 16) as an Option: an optional '+', then at least
\* one hex digit, the value at most 255.
from_str_radix(s) ==
    IF s = <<>> THEN None
    ELSE IF Len(s) = 1 /\ s[1] \in {43, 45} THEN None
    ELSE LET digits == IF s[1] = 43 THEN Tail(s) ELSE s
             v == HexNumber(digits, 0)
         IN IF v < 0 \/ v > 255 THEN None ELSE Some(v)

\* parse_command that returns the lines even when none is left.
parse_command_unchecked(response) ==
    LET NonEmpty(x) == x # <<>>
        lines == Split(response, LF)
        toks == [i \in 1..Len(lines) |-> SelectSeq(Split(lines[i], SPACE), NonEmpty)]
    IN Ok(SelectSeq(toks, NonEmpty))

\* Obd2::parse_command: the lines of the reply, each split at ' ' with the
\* empty pieces dropped, the empty lines dropped; no line left is an error.
parse_command(response) ==
    LET NonEmpty(x) == x # <<>>
        lines == Split(response, LF)
        toks == [i \in 1..Len(lines) |-> SelectSeq(Split(lines[i], SPACE), NonEmpty)]
        result == SelectSeq(toks, NonEmpty)
    IN IF result # <<>> THEN Ok(result) ELSE Err("Other")

\* The closure of parse_command_multiline over the lines that hold a ':',
\* from line i on, n_idx being the index expected next and acc the tokens
\* collected so far; an index that is not n_idx reaches todo!().
RECURSIVE multiline_from(_, _, _, _)
multiline_from(pairs, i, n_idx, acc) ==
    IF i > Len(pairs) THEN Ok(acc)
    ELSE IF from_str_radix(pairs[i][1]) # Some(n_idx) THEN Err("Panic")
    ELSE multiline_from(pairs, i + 1, (n_idx + 1) % IDX_MOD,
                        acc \o split_whitespace(pairs[i][2]))

\* Obd2::parse_command_multiline: the lines without ':' are skipped; the
\* tokens after the ':' of the others are concatenated.
parse_command_multiline(response) ==
    LET lines == Split(response, LF)
        HasColon(l) == split_once(l, COLON) # None
        kept == SelectSeq(lines, HasColon)
        pairs == [i \in 1..Len(kept) |-> split_once(kept[i], COLON)[1]]
    IN multiline_from(pairs, 1, 0, <<>>)

\* Every token of every response through u8::from_str_radix; one failure
\* fails the whole collect.
to_bytes(data) ==
    IF \E i \in 1..Len(data) : \E j \in 1..Len(data[i]) :
           from_str_radix(data[i][j]) = None
    THEN Err("Other")
    ELSE Ok([i \in 1..Len(data) |->
                [j \in 1..Len(data[i]) |-> from_str_radix(data[i][j])[1]]])

\* vec![self.parse_command_multiline(response)?]
single(m) == IF m.tag = "Ok" THEN Ok(<<m.val>>) ELSE m

\* The conversion of the parsed data, an error of the parse returned as it is.
collect(data) == IF data.tag # "Ok" THEN data ELSE to_bytes(data.val)

\* The classification that takes any hex digit before a ':' for a line
\* index.
is_multiline_any_index(response) ==
    \E i \in 1..(Len(response) - 1) :
        HexVal(response[i]) >= 0 /\ response[i + 1] = COLON

\* response.contains("0:")
is_multiline(response) == Contains(response, <<48, COLON>>)

\* The reply parsed into the token lists of its responses, by its class.
parse_lines(response) ==
    IF is_multiline(response) THEN single(parse_command_multiline(response))
    ELSE parse_command(response)

\* The classification of the reply by its text, the parse and the conversion.
parse_response(response) == collect(parse_lines(response))

\* command that takes a missing reply for an empty response set.
command_result_empty(c) ==
    [ret |-> IF c.ret.tag # "Ok" THEN Err("Device")
             ELSE IF c.ret.val = None THEN Ok(<<>>)
             ELSE parse_response(c.ret.val[1]),
     buffer |-> c.buffer, wire |-> c.wire, ev |-> c.ev, response |-> c.ret.val]

\* Obd2::command after the device's cmd returned c.
command_result(c) ==
    [ret |-> IF c.ret.tag # "Ok" THEN Err("Device")
             ELSE IF c.ret.val = None THEN Err("Other")
             ELSE parse_response(c.ret.val[1]),
     buffer |-> c.buffer, wire |-> c.wire, ev |-> c.ev, response |-> c.ret.val]

\* Obd2::command: the device's cmd, the classification of the reply, the
\* parse and the conversion of the tokens to bytes.
command(q, w, bytes, out, fuel) == command_result(cmd(q, w, bytes, out, fuel))

\* 0x40 | mode
ResponseMode(mode) ==
    IF (mode \div RESPONSE_BIT) % 2 = 1 THEN mode ELSE mode + RESPONSE_BIT

\* slice::first and slice::get(1) as Options
First(r) == IF Len(r) >= 1 THEN Some(r[1]) ELSE None
Second(r) == IF Len(r) >= 2 THEN Some(r[2]) ELSE None

\* split_at one byte early.
StripFront_early(r, n) == SubSeq(r, n, Len(r))

\* slice::split_at(n).1
StripFront(r, n) == SubSeq(r, n + 1, Len(r))

\* The envelope check of obd_command on the responses: each must start with
\* 0x40 | mode and pid; a mismatch reaches todo!().
strip_mode_pid(result, mode, pid) ==
    IF \E i \in 1..Len(result) :
          \/ First(result[i]) # Some(ResponseMode(mode))
          \/ Second(result[i]) # Some(pid)
    THEN Err("Panic")
    ELSE Ok([i \in 1..Len(result) |-> StripFront(result[i], 2)])

\* The envelope check of obd_mode_command: each response must start with
\* 0x40 | mode.
strip_mode(result, mode) ==
    IF \E i \in 1..Len(result) : First(result[i]) # Some(ResponseMode(mode))
    THEN Err("Panic")
    ELSE Ok([i \in 1..Len(result) |-> StripFront(result[i], 1)])

\* The outcome of a call whose command returned c and whose envelope check
\* gave ret; parsed keeps the result of command.
obd_result(c, ret) ==
    [ret |-> IF c.ret.tag # "Ok" THEN c.ret ELSE ret, parsed |-> c.ret,
     buffer |-> c.buffer, wire |-> c.wire, ev |-> c.ev, response |-> c.response]

obd_command_result(c, mode, pid) ==
    obd_result(c, IF c.ret.tag # "Ok" THEN c.ret
                  ELSE strip_mode_pid(c.ret.val, mode, pid))

obd_mode_command_result(c, mode) ==
    obd_result(c, IF c.ret.tag # "Ok" THEN c.ret
                  ELSE strip_mode(c.ret.val, mode))

\* Obd2::obd_command
obd_command(q, w, mode, pid, out, fuel) ==
    obd_command_result(command(q, w, <<mode, pid>>, out, fuel), mode, pid)

\* Obd2::obd_mode_command
obd_mode_command(q, w, mode, out, fuel) ==
    obd_mode_command_result(command(q, w, <<mode>>, out, fuel), mode)

\* ---------------------------------------------------------------- Decoders

\* Error::IncorrectResponseLength(label, expected, actual)
IncorrectResponseLength(label, expected, actual) ==
    [tag |-> "IncorrectResponseLength", val |-> <<label, expected, actual>>]

\* The indexes of the payloads whose length is not RESPONSE_LENGTH.
WrongLength(payloads, RESPONSE_LENGTH) ==
    {i \in 1..Len(payloads) : Len(payloads[i]) # RESPONSE_LENGTH}

\* The collect of obd_command_len that reports the last payload of the wrong
\* length.
collect_len_last(payloads, RESPONSE_LENGTH) ==
    LET bad == WrongLength(payloads, RESPONSE_LENGTH)
    IN IF bad = {} THEN Ok(payloads)
       ELSE LET i == CHOOSE k \in bad : \A j \in bad : j <= k
            IN IncorrectResponseLength("length", RESPONSE_LENGTH, Len(payloads[i]))

\* The map and collect of obd_command_len: every payload through try_into;
\* the collect stops at the first payload that is not RESPONSE_LENGTH long.
collect_len(payloads, RESPONSE_LENGTH) ==
    LET bad == WrongLength(payloads, RESPONSE_LENGTH)
    IN IF bad = {} THEN Ok(payloads)
       ELSE LET i == CHOOSE k \in bad : \A j \in bad : k <= j
            IN IncorrectResponseLength("length", RESPONSE_LENGTH, Len(payloads[i]))

\* obd_command_len after obd_command returned o; payloads keeps the result
\* of obd_command.
obd_command_len_result(o, RESPONSE_LENGTH) ==
    [ret |-> IF o.ret.tag # "Ok" THEN o.ret
             ELSE collect_len(o.ret.val, RESPONSE_LENGTH),
     payloads |-> o.ret, parsed |-> o.parsed, buffer |-> o.buffer,
     wire |-> o.wire, ev |-> o.ev, response |-> o.response]

\* Obd2Device::obd_command_len
obd_command_len(q, w, mode, pid, RESPONSE_LENGTH, out, fuel) ==
    obd_command_len_result(obd_command(q, w, mode, pid, out, fuel),
                           RESPONSE_LENGTH)

\* The try_into of obd_command_cnt_len that takes fewer arrays than
\* RESPONSE_COUNT and pads them.
try_into_count_padded(result, RESPONSE_COUNT) ==
    IF Len(result) > RESPONSE_COUNT
    THEN IncorrectResponseLength("count", RESPONSE_COUNT, Len(result))
    ELSE Ok(result)

\* The try_into of obd_command_cnt_len: the arrays must be RESPONSE_COUNT.
try_into_count(result, RESPONSE_COUNT) ==
    IF Len(result) # RESPONSE_COUNT
    THEN IncorrectResponseLength("count", RESPONSE_COUNT, Len(result))
    ELSE Ok(result)

\* obd_command_cnt_len after obd_command_len returned r.
obd_command_cnt_len_result(r, RESPONSE_COUNT) ==
    [r EXCEPT !.ret = IF r.ret.tag # "Ok" THEN r.ret
                      ELSE try_into_count(r.ret.val, RESPONSE_COUNT)]

\* Obd2Device::obd_command_cnt_len
obd_command_cnt_len(q, w, mode, pid, RESPONSE_COUNT, RESPONSE_LENGTH, out, fuel) ==
    obd_command_cnt_len_result(
        obd_command_len(q, w, mode, pid, RESPONSE_LENGTH, out, fuel),
        RESPONSE_COUNT)

\* ---------------------------------------------------------- Value decoders

\* The widths of the integers of the decoders.
U8_RANGE == 256
U16_RANGE == 65536

\* The two bytes read with the low-order byte first.
from_le_bytes(b) == b[2] * U8_RANGE + b[1]

\* u16::from_be_bytes
from_be_bytes(b) == b[1] * U8_RANGE + b[2]

\* The mask and the shift of From<u16> for Dtc.
DTC_MASK_RANGE == 64
DTC_SHIFT_RANGE == 16384

\* The categories of a Dtc in the order of their codes, and their letters
\* 'P', 'C', 'B', 'U'.
Categories == <<"Powertrain", "Chassis", "Body", "Network">>
Letters == <<80, 67, 66, 85>>

\* impl From<u16> for Dtc: n = val & 0x3f, the category by val >> 14.
DtcFrom(val) ==
    [cat |-> Categories[(val \div DTC_SHIFT_RANGE) + 1],
     n |-> val % DTC_MASK_RANGE]

\* format!("{:X}", n): upper-case hex digits, no leading zero.
RECURSIVE UpperHex(_)
UpperHex(n) ==
    IF n < 16 THEN <<HexDigit(n)>>
    ELSE Append(UpperHex(n \div 16), HexDigit(n % 16))

\* format!("{:03X}", n): the digits padded with zeros to three at least.
UpperHex3(n) ==
    LET d == UpperHex(n)
    IN IF Len(d) >= 3 THEN d ELSE [i \in 1..(3 - Len(d)) |-> 48] \o d

\* impl Display for Dtc
DtcDisplay(d) ==
    LET k == CHOOSE i \in 1..4 : Categories[i] = d.cat
    IN <<Letters[k]>> \o UpperHex3(d.n)

\* The seven-test field of DtcsInfo that keeps the low nibble of byte 1.
common_tests_low_nibble(b) == ((b \div 16) * 8) + (b % 16)

\* ((response[1] & 0xf0) >> 1) | (response[1] & 0x07): the two parts share
\* no bit, so the or is their sum.
common_tests(b) == ((b \div 16) * 8) + (b % 8)

\* The closure of GetObd2Values for DtcsInfo on one response.
dtcs_info(response) ==
    IF Len(response) = 4
    THEN Ok([malfunction_indicator_light |-> (response[1] \div 128) % 2 = 1,
             dtc_count |-> response[1] % 128,
             common_test_availability |-> common_tests(response[2]),
             is_compression_engine |-> (response[2] \div 8) % 2 = 1,
             specific_test_availability |->
                 (response[4] * U8_RANGE) + response[3]])
    ELSE Err("Other")

\* The collect of a map over the responses: the values in order, or the
\* first error (f[i] is the value of the closure on response i).
collect_results(f) ==
    LET bad == {i \in 1..Len(f) : f[i].tag # "Ok"}
    IN IF bad = {} THEN Ok([i \in 1..Len(f) |-> f[i].val])
       ELSE f[CHOOSE i \in bad : \A j \in bad : i <= j]

\* GetObd2Values for DtcsInfo after obd_command returned ret.
dtcs_info_result(ret) ==
    IF ret.tag # "Ok" THEN ret
    ELSE collect_results([i \in 1..Len(ret.val) |-> dtcs_info(ret.val[i])])

\* The result x of an i16 operation: the value the 16 bits hold, and
\* whether x was out of the range of i16 (a panic in a debug build, a wrap
\* in a release build).
I16(x) ==
    [val |-> ((x + (U16_RANGE \div 2)) % U16_RANGE) - (U16_RANGE \div 2),
     overflow |-> x < -(U16_RANGE \div 2) \/ x >= (U16_RANGE \div 2)]

\* The same for an operation on u8.
U8(x) == [val |-> x % U8_RANGE, overflow |-> x < 0 \/ x >= U8_RANGE]

\* The offset of the temperatures and the factor of the fuel pressure.
TEMP_OFFSET == 40
PRESSURE_FACTOR == 3

\* The temperature computed on the byte itself, not widened.
temperature_u8(v) == U8(v - TEMP_OFFSET)

\* |v: i16| v - 40 on v.into() of the byte v (get_engine_coolant_temperature,
\* get_intake_air_temperature).
temperature(v) == I16(v - TEMP_OFFSET)

\* |v: i16| v * 3 on v.into() of the byte v (get_fuel_pressure).
fuel_pressure(v) == I16(v * PRESSURE_FACTOR)

\* The outcome of a typed accessor whose obd_command or obd_mode_command
\* returned o and whose decoding gave ret; payloads keeps the result of o.
accessor_result(o, ret) ==
    [ret |-> IF o.ret.tag # "Ok" THEN o.ret ELSE ret, payloads |-> o.ret,
     buffer |-> o.buffer, wire |-> o.wire, ev |-> o.ev]

\* String::from_utf8(result)? of get_vin.
vin_text(bytes) ==
    IF from_utf8(bytes) = None THEN Err("Other") ELSE Ok(bytes)

\* The decoding of get_vin that keeps the first byte of the payload.
vin_decode_keep_first(payloads) ==
    IF payloads = <<>> THEN Err("Panic")
    ELSE IF payloads[Len(payloads)] = <<>> THEN Err("Panic")
    ELSE vin_text(payloads[Len(payloads)])

\* The decoding of get_vin: pop().unwrap() takes the last response and
\* panics when there is none, remove(0) panics on an empty payload.
vin_decode(payloads) ==
    IF payloads = <<>> THEN Err("Panic")
    ELSE IF payloads[Len(payloads)] = <<>> THEN Err("Panic")
    ELSE vin_text(Tail(payloads[Len(payloads)]))

get_vin_result(o) ==
    accessor_result(o, IF o.ret.tag # "Ok" THEN o.ret ELSE vin_decode(o.ret.val))

\* implementation::get_vin
get_vin(q, w, out, fuel) == get_vin_result(obd_command(q, w, 9, 2, out, fuel))

\* The shift of the category bits in a byte of the DTC list.
CATEGORY_SHIFT_RANGE == 64

\* The greatest first byte of a DTC list whose variant is left as todo!().
LAST_TODO_VARIANT == 3

\* The entries of a DTC list of the variant 0: for i in
\* (1..response.len()).step_by(2) the category response[i] >> 6, the code 0
\* (response[i] is the byte at i + 1 of the sequence).
dtc_entries(response) ==
    [k \in 1..((Len(response) - 1) \div 2) |->
        [cat |-> Categories[(response[2 * k] \div CATEGORY_SHIFT_RANGE) + 1],
         n |-> 0]]

\* The closure of GetObd2ValuesMode for Vec<Dtc> on one response.
dtc_list(response) ==
    IF response = <<>> THEN Err("Other")
    ELSE IF response[1] = 0
         THEN (IF Len(response) % 2 = 1 THEN Ok(dtc_entries(response))
               ELSE Err("Other"))
    ELSE IF response[1] <= LAST_TODO_VARIANT THEN Err("Panic")
    ELSE Err("Other")

get_dtcs_result(o) ==
    accessor_result(o, IF o.ret.tag # "Ok" THEN o.ret
                       ELSE collect_results([i \in 1..Len(o.ret.val) |->
                                                dtc_list(o.ret.val[i])]))

\* Obd2DataRetrieval::get_dtcs
get_dtcs(q, w, out, fuel) ==
    get_dtcs_result(obd_mode_command(q, w, 3, out, fuel))

\* The divisor of the RPM.
RPM_DIVISOR == 4

\* |v: f32| v / 4.0 on the u16 v: the quotient is exact in f32; it is held
\* as its whole part and the count of quarters left.
rpm(v) == [whole |-> v \div RPM_DIVISOR, quarters |-> v % RPM_DIVISOR]

\* impl_func on the arrays of u16::get_obd2_val: from_be_bytes, then the map.
rpm_values(arrays) == [i \in 1..Len(arrays) |-> rpm(from_be_bytes(arrays[i]))]

get_rpm_result(r) ==
    [ret |-> IF r.ret.tag # "Ok" THEN r.ret ELSE Ok(rpm_values(r.ret.val)),
     payloads |-> r.payloads, buffer |-> r.buffer, wire |-> r.wire,
     ev |-> r.ev]

\* Obd2DataRetrieval::get_rpm
get_rpm(q, w, out, fuel) ==
    get_rpm_result(obd_command_len(q, w, 1, 12, 2, out, fuel))

\* -------------------------------------------------------------- environment

\* The bytes a delivery of the transport may bring: a letter, CR, LF, NUL and
\* the prompt.
StreamBytes == {65, CR, LF, NUL, PROMPT}

\* The commands a caller sends: service 01 PID 0C, and service 03.
Commands == {<<1, 12>>, <<3>>}

\* text with its i-th byte replaced by '?'.
Garble(text, i) == [text EXCEPT ![i] = 63]

\* What the adapter may send where the echo of text is due: the text with CR
\* or CRLF, the same after an empty line, the text with its first or last
\* byte changed, one byte short, one byte long, or nothing.
Echoes(text) ==
    {text \o <<CR>>, text \o <<CR, LF>>, <<CR>> \o text \o <<CR>>,
     Garble(text, 1) \o <<CR>>, Garble(text, Len(text)) \o <<CR>>,
     SubSeq(text, 1, Len(text) - 1) \o <<CR>>, text \o <<48, CR>>, <<>>}

\* Reply bodies of the adapter, before the prompt: none, and the two lines
\* "4", "A" with an empty line between them.
DevReplies == {<<>>, <<52, CR, CR, 65, CR>>}

\* What the adapter sends after a command: an echo, a reply body and the
\* prompt, or a prefix that ends before the prompt.
AdapterOuts(text) ==
    {[bytes |-> e \o r \o p, echo |-> e, reply |-> r, prompt |-> p # <<>>] :
        e \in Echoes(text), r \in DevReplies, p \in {<<>>, <<PROMPT>>}}

\* The iteration budgets of one read of the framer: up to one more than the
\* bytes there can be, which no read exhausts.
Fuels == 0..(MaxBytes + 1)

\* The budget of a read during which the deadline passes only once no byte
\* is left to read.
Patient(stream) == Len(stream) + 1

\* A stream as get_until's loop accumulates it: NUL and LF dropped, CR turned
\* into a newline.
RECURSIVE Normalize(_)
Normalize(s) ==
    IF s = <<>> THEN <<>>
    ELSE (IF Head(s) = NUL THEN <<>>
          ELSE IF translate(Head(s)) = None THEN <<>>
          ELSE translate(Head(s)))
         \o Normalize(Tail(s))

\* --------------------------------------------------------------------- state

VARIABLES
    buffer,   \* Elm327.buffer, the receive queue
    wire,     \* the bytes the transport holds and read() has not returned yet
    last,     \* the last call: its inputs, its result and its events
    resume,   \* the stream of a read that timed out, with what arrived since
    nops,     \* send_cmd and cmd calls made
    arrived,  \* bytes delivered unsolicited
    rate,     \* the baud rate the transport is set to
    baud_rate \* Elm327.baud_rate, the rate the session has recorded

vars == <<buffer, wire, last, resume, nops, arrived, rate, baud_rate>>

NoResume == [active |-> FALSE, end_byte |-> NUL, stream |-> <<>>]

NoCall ==
    [op |-> "new", end_byte |-> NUL, ret |-> Ok(None), ev |-> <<>>,
     text |-> <<>>, line |-> None, pre |-> <<>>, preq |-> <<>>,
     patient |-> TRUE,
     acc |-> <<>>, remq |-> <<>>, timedOut |-> FALSE,
     resumed |-> FALSE, orig |-> <<>>,
     echo |-> <<>>, reply |-> <<>>, prompt |-> FALSE, afterComm |-> FALSE,
     mode |-> 0, pid |-> 0, parsed |-> Ok(<<>>), response |-> None,
     idxs |-> <<>>, frame |-> <<>>,
     len |-> 0, count |-> 0, payloads |-> Ok(<<>>),
     postw |-> <<>>, fuel |-> 0, spent |-> 0, in |-> <<>>,
     out |-> <<>>]

\* Elm327::new leaves the queue empty (flush clears it).
Init ==
    /\ buffer = <<>>
    /\ wire = <<>>
    /\ last = NoCall
    /\ resume = NoResume
    /\ nops = 0
    /\ arrived = 0
    /\ rate = INITIAL_BAUD
    /\ baud_rate = INITIAL_BAUD

\* The transport receives a byte.
Arrive(b) ==
    /\ arrived < MaxBytes
    /\ arrived' = arrived + 1
    /\ wire' = Append(wire, b)
    /\ resume' = IF resume.active
                 THEN [resume EXCEPT !.stream = Append(@, b)] ELSE resume
    /\ UNCHANGED <<buffer, last, nops, rate, baud_rate>>

\* A call of get_until through get_line or get_response.
Read(name, end_byte, allow_empty, fuel) ==
    \E r \in {IF name = "get_line" THEN get_line(buffer, wire, fuel)
                ELSE get_response(buffer, wire, fuel)} :
    LET pre == buffer \o wire
        to == r.ret = Ok(None)
        cont == resume.active /\ resume.end_byte = end_byte
    IN /\ buffer' = r.buffer
       /\ wire' = r.wire
       /\ last' = [NoCall EXCEPT !.op = name, !.end_byte = end_byte,
                      !.ret = r.ret, !.ev = <<ReadEv(name)>>, !.pre = pre,
                      !.preq = buffer, !.patient = fuel > Len(pre),
                      !.acc = r.acc, !.remq = r.remq, !.timedOut = to,
                      !.resumed = cont,
                      !.orig = IF cont THEN resume.stream ELSE <<>>,
                      !.postw = r.wire, !.fuel = fuel, !.spent = r.spent]
       /\ resume' = IF ~to THEN NoResume
                    ELSE IF cont THEN resume
                    ELSE [active |-> TRUE, end_byte |-> end_byte, stream |-> pre]
       /\ UNCHANGED <<nops, arrived, rate, baud_rate>>

GetLine(fuel) == Read("get_line", LF, FALSE, fuel)

GetResponse(fuel) == Read("get_response", PROMPT, TRUE, fuel)

\* The framer under a caller that reads lines and responses while bytes
\* arrive.
Next ==
    \/ \E b \in StreamBytes : Arrive(b)
    \/ \E fuel \in Fuels : GetLine(fuel)
    \/ \E fuel \in Fuels : GetResponse(fuel)

Spec == Init /\ [][Next]_vars

\* The transport will fail the read() that comes after the bytes it holds.
Fail ==
    /\ arrived < MaxBytes
    /\ arrived' = arrived + 1
    /\ wire' = Append(wire, FAIL)
    /\ resume' = NoResume
    /\ UNCHANGED <<buffer, last, nops, rate, baud_rate>>

\* The framer over a transport whose reads may fail.
NextIO ==
    \/ \E b \in StreamBytes : Arrive(b)
    \/ Fail
    \/ \E fuel \in Fuels : GetLine(fuel)
    \/ \E fuel \in Fuels : GetResponse(fuel)

SpecIO == Init /\ [][NextIO]_vars

\* A call of send_cmd or cmd with the adapter's answer a; the deadline of a
\* read passes only once no byte is left.
Send(name, data, a) ==
    LET pre == buffer \o wire \o a.bytes
    IN \E r \in {IF name = "cmd"
                 THEN cmd(buffer, wire, data, a.bytes, Patient(pre))
                 ELSE send_cmd(buffer, wire, data, a.bytes, Patient(pre))} :
       /\ nops < MaxOps
       /\ nops' = nops + 1
       /\ buffer' = r.buffer
       /\ wire' = r.wire
       /\ last' = [NoCall EXCEPT !.op = name, !.ret = r.ret, !.ev = r.ev,
                      !.text = HexText(data), !.line = r.line, !.pre = pre,
                      !.preq = buffer,
                      !.echo = a.echo, !.reply = a.reply, !.prompt = a.prompt,
                      !.afterComm = last.op \in {"cmd", "send_cmd"}
                                    /\ last.ret.tag = "Communication"]
       /\ resume' = NoResume
       /\ UNCHANGED <<arrived, rate, baud_rate>>

SendCmd(data, a) == Send("send_cmd", data, a)

Cmd(data, a) == Send("cmd", data, a)

\* The adapter session under a caller that sends commands.
NextSession ==
    \/ \E data \in Commands : \E a \in AdapterOuts(HexText(data)) : SendCmd(data, a)
    \/ \E data \in Commands : \E a \in AdapterOuts(HexText(data)) : Cmd(data, a)

SpecSession == Init /\ [][NextSession]_vars

\* ------------------------------------------- environment of the dispatcher

\* The bytes as two-digit hex groups separated by single spaces.
RECURSIVE HexLine(_)
HexLine(bytes) ==
    IF bytes = <<>> THEN <<>>
    ELSE IF Len(bytes) = 1 THEN HexText(bytes)
    ELSE HexText(<<Head(bytes)>>) \o <<SPACE>> \o HexLine(Tail(bytes))

RECURSIVE Concat(_)
Concat(ss) == IF ss = <<>> THEN <<>> ELSE Head(ss) \o Concat(Tail(ss))

\* The requests of the model: service 01 PID 0C, service 09 PID 02, and the
\* mode-only service 03.
PidRequests == {<<1, 12>>, <<9, 2>>}
ModeRequests == {3}

\* The frames one ECU may answer where the envelope env is due: the envelope
\* alone, with two data bytes, a negative response, the envelope with its
\* last byte off by one, and the envelope one byte short.
Frames(env) ==
    {env, env \o <<26, 248>>, <<127>> \o Tail(env) \o <<18>>,
     [env EXCEPT ![Len(env)] = @ + 1] \o <<26>>,
     SubSeq(env, 1, Len(env) - 1)} \ {<<>>}

\* "NO DATA"
NoData == <<78, 79, SPACE, 68, 65, 84, 65>>

\* The lines of a single-line reply: a frame in hex with a trailing space,
\* or the adapter's NO DATA.
ReplyLines(env) ==
    {HexLine(f) \o <<SPACE, CR>> : f \in Frames(env)} \cup {NoData \o <<CR>>}

\* The single-line reply bodies: nothing at all, or up to two lines and the
\* empty line the adapter ends a reply with; the second line of two is a
\* frame with data or the frame whose envelope is off by one.
SingleReplies(env) ==
    {<<>>, <<CR>>}
    \cup {l \o <<CR>> : l \in ReplyLines(env)}
    \cup {l1 \o HexLine(f2) \o <<SPACE, CR, CR>> :
            l1 \in ReplyLines(env),
            f2 \in {env \o <<26, 248>>, [env EXCEPT ![Len(env)] = @ + 1] \o <<26>>}}

\* The line index sequences of the multi-line replies: in order, out of
\* order, and the seventeen lines that wrap from F to 0.
IndexSeqs ==
    {<<0>>, <<0, 1>>, <<0, 1, 2>>, <<0, 2, 1>>, <<1, 0>>, <<0, 0>>,
     [k \in 1..(IDX_MOD + 1) |-> (k - 1) % IDX_MOD]}

\* The bytes of the k-th of the n lines of a multi-line reply whose first
\* line starts with the frame head; of a reply of more than three lines only
\* the first and the last line carry bytes.
LineBytes(head, k, n) ==
    IF k = 1 THEN head \o <<1>>
    ELSE IF n > 3 /\ k < n THEN <<>>
    ELSE <<48 + k>>

\* A multi-line reply body: the length line "014", then a line "i:" with
\* its bytes in hex for every index of idxs.
MultiBody(idxs, head) ==
    <<48, 49, 52, CR>>
    \o Concat([k \in 1..Len(idxs) |->
                 LET bytes == LineBytes(head, k, Len(idxs))
                 IN <<HexDigit(idxs[k]), COLON>>
                    \o (IF bytes = <<>> THEN <<>> ELSE <<SPACE>> \o HexLine(bytes))
                    \o <<CR>>])

MultiFrame(idxs, head) ==
    Concat([k \in 1..Len(idxs) |-> LineBytes(head, k, Len(idxs))])

\* What the adapter sends after the request text whose reply envelope is
\* env: the echo, a reply and the prompt; or one of three faults: a changed
\* echo, a reply that is no UTF-8 text, a reply whose prompt does not come.
ObdOuts(text, env) ==
    {[bytes |-> text \o <<CR>> \o r \o <<PROMPT>>, idxs |-> <<>>, frame |-> <<>>] :
        r \in SingleReplies(env)}
    \cup {[bytes |-> text \o <<CR>> \o MultiBody(ix, h) \o <<PROMPT>>,
           idxs |-> ix, frame |-> MultiFrame(ix, h)] :
            ix \in IndexSeqs, h \in {env, [env EXCEPT ![Len(env)] = @ + 1]}}
    \cup {[bytes |-> text \o <<CR, 48, COLON, CR, PROMPT>>,
           idxs |-> <<0>>, frame |-> <<>>]}
    \cup {[bytes |-> b, idxs |-> <<>>, frame |-> <<>>] :
            b \in {Garble(text, 1) \o <<CR>> \o HexLine(env) \o <<CR, PROMPT>>,
                   text \o <<CR, 255, CR, PROMPT>>,
                   text \o <<CR>> \o HexLine(env) \o <<CR>>}}

ObdOps == {"obd_command", "obd_mode_command"}

\* A call of obd_command or obd_mode_command with the adapter's answer a.
\* A call that reached todo!() has unwound the caller: nothing follows it.
ObdCall(name, mode, pid, a) ==
    LET pre == buffer \o wire \o a.bytes
    IN \E r \in {IF name = "obd_command"
                 THEN obd_command(buffer, wire, mode, pid, a.bytes, Patient(pre))
                 ELSE obd_mode_command(buffer, wire, mode, a.bytes, Patient(pre))} :
       /\ nops < MaxOps
       /\ last.ret.tag # "Panic"
       /\ nops' = nops + 1
       /\ buffer' = r.buffer
       /\ wire' = r.wire
       /\ last' = [NoCall EXCEPT !.op = name, !.ret = r.ret, !.ev = r.ev,
                      !.mode = mode, !.pid = pid, !.parsed = r.parsed,
                      !.response = r.response, !.pre = pre, !.preq = buffer,
                      !.idxs = a.idxs, !.frame = a.frame]
       /\ resume' = NoResume
       /\ UNCHANGED <<arrived, rate, baud_rate>>

ObdCommand(mode, pid, a) == ObdCall("obd_command", mode, pid, a)

ObdModeCommand(mode, a) == ObdCall("obd_mode_command", mode, 0, a)

\* The dispatcher under a caller that issues requests.
NextObd ==
    \/ \E c \in PidRequests :
         \E a \in ObdOuts(HexText(c), <<ResponseMode(c[1]), c[2]>>) :
            ObdCommand(c[1], c[2], a)
    \/ \E m \in ModeRequests :
         \E a \in ObdOuts(HexText(<<m>>), <<ResponseMode(m)>>) :
            ObdModeCommand(m, a)

SpecObd == Init /\ [][NextObd]_vars

\* ---------------------------------------------- environment of the decoders

\* The widths and counts the decoders are instantiated with.
Lengths == {0, 1, 2}
Counts == {1, 2}

\* What the adapter sends after the request text of a decoder call: the
\* echo, a single-line reply body and the prompt; a reply that is no hex; a
\* reply whose prompt does not come.
DecodeOuts(text, env) ==
    {text \o <<CR>> \o r \o <<PROMPT>> : r \in SingleReplies(env)}
    \cup {text \o <<CR, 52, 71, SPACE, CR, CR, PROMPT>>,
          text \o <<CR>> \o HexLine(env) \o <<CR>>}

DecodeOps == {"obd_command_len", "obd_command_cnt_len"}

\* A call of obd_command_len or obd_command_cnt_len (count > 0) for service
\* 01 PID 0C with the adapter's answer out.
DecodeCall(name, count, len, out) ==
    LET pre == buffer \o wire \o out
    IN \E r \in {IF name = "obd_command_len"
                 THEN obd_command_len(buffer, wire, 1, 12, len, out, Patient(pre))
                 ELSE obd_command_cnt_len(buffer, wire, 1, 12, count, len, out,
                                          Patient(pre))} :
       /\ nops < MaxDecodes
       /\ last.ret.tag # "Panic"
       /\ nops' = nops + 1
       /\ buffer' = r.buffer
       /\ wire' = r.wire
       /\ last' = [NoCall EXCEPT !.op = name, !.ret = r.ret, !.ev = r.ev,
                      !.mode = 1, !.pid = 12, !.parsed = r.parsed,
                      !.response = r.response, !.pre = pre, !.preq = buffer,
                      !.len = len, !.count = count, !.payloads = r.payloads]
       /\ resume' = NoResume
       /\ UNCHANGED <<arrived, rate, baud_rate>>

ObdCommandLen(len, out) == DecodeCall("obd_command_len", 0, len, out)

ObdCommandCntLen(count, len, out) ==
    DecodeCall("obd_command_cnt_len", count, len, out)

\* The decoders under a caller that reads service 01 PID 0C.
NextDecode ==
    \/ \E len \in Lengths :
         \E out \in DecodeOuts(HexText(<<1, 12>>), <<ResponseMode(1), 12>>) :
            ObdCommandLen(len, out)
    \/ \E count \in Counts : \E len \in Lengths :
         \E out \in DecodeOuts(HexText(<<1, 12>>), <<ResponseMode(1), 12>>) :
            ObdCommandCntLen(count, len, out)

SpecDecode == Init /\ [][NextDecode]_vars

\* ------------------------------------------- environment of the maintenance

\* What the adapter may send after a command text of the maintenance calls:
\* the echo, the line OK and the prompt; the same without the prompt; a
\* changed echo; nothing.
MaintOuts(text) ==
    {text \o <<CR>> \o OK \o <<CR, CR, PROMPT>>,
     text \o <<CR>> \o OK \o <<CR>>,
     Garble(text, 1) \o <<CR, PROMPT>>,
     <<>>}

\* The inputs of a reset.
ResetInputs ==
    [purge1 : BOOLEAN, atz : MaintOuts(ATZ) \cup {<<FAIL>>},
     sp : MaintOuts(ATSP0),
     probe : MaintOuts(HexText(<<1, 0>>)), purge2 : BOOLEAN]

\* A call of reset with the inputs in.
Reset(in) ==
    /\ nops < MaxMaint
    /\ last.ret.tag # "Panic"
    /\ LET pre == buffer \o wire \o in.atz \o in.sp \o in.probe
       IN \E r \in {reset(buffer, wire, in, Patient(pre))} :
       /\ nops' = nops + 1
       /\ buffer' = r.buffer
       /\ wire' = r.wire
       /\ last' = [NoCall EXCEPT !.op = "reset", !.ret = r.ret, !.ev = r.ev,
                      !.pre = pre, !.preq = buffer, !.in = in]
       /\ resume' = NoResume
       /\ UNCHANGED <<arrived, rate, baud_rate>>

\* What the adapter does in the turn of one divisor: it rejects the command
\* with "?", accepts it and sends a changed banner, accepts it and sends
\* nothing, accepts it and the transport fails at the new rate, accepts it
\* and sends the banner and then OK or nothing, stays silent, or the
\* transport fails at once.
Turns == {"nack", "badbanner", "mute", "readfail", "banner", "bannermute",
          "silent", "fail"}

Polite == {"nack", "badbanner", "mute"}

Turn(name, div) ==
    LET accepted == brd_command(div) \o <<CR>> \o OK \o <<CR>>
    IN CASE name = "nack" ->
              [brd |-> brd_command(div) \o <<CR, 63, CR, CR, PROMPT>>,
               banner |-> <<>>, ack |-> <<>>]
         [] name = "badbanner" ->
              [brd |-> accepted, banner |-> Garble(BANNER, 1) \o <<CR, PROMPT>>,
               ack |-> <<>>]
         [] name = "mute" ->
              [brd |-> accepted, banner |-> <<>>, ack |-> <<>>]
         [] name = "readfail" ->
              [brd |-> accepted, banner |-> <<FAIL>>, ack |-> <<>>]
         [] name = "banner" ->
              [brd |-> accepted, banner |-> BANNER \o <<CR>>,
               ack |-> <<CR>> \o OK \o <<CR, PROMPT>>]
         [] name = "bannermute" ->
              [brd |-> accepted, banner |-> BANNER \o <<CR>>, ack |-> <<>>]
         [] name = "silent" ->
              [brd |-> <<>>, banner |-> <<>>, ack |-> <<>>]
         [] OTHER ->
              [brd |-> <<FAIL>>, banner |-> <<>>, ack |-> <<>>]

\* The divisors whose turn differs from the others in a script.
MarkedDivs == {FIRST_DIV, FIRST_DIV + 1, 97, END_DIV - 1}

\* The adapter does base in every turn but that of the divisor at, where it
\* does with.
Script(in) ==
    [d \in FIRST_DIV..(END_DIV - 1) |->
        Turn(IF d = in.at THEN in.with ELSE in.base, d)]

SearchInputs == [base : Polite, at : MarkedDivs, with : Turns]

\* Everything the adapter sends during a search.
RECURSIVE ScriptBytes(_, _)
ScriptBytes(script, d) ==
    IF d >= END_DIV THEN <<>>
    ELSE script[d].brd \o script[d].banner \o script[d].ack
         \o ScriptBytes(script, d + 1)

\* A call of find_baud_rate_divisor under the script of in.
FindBaudRateDivisor(in) ==
    /\ nops < MaxMaint
    /\ last.ret.tag # "Panic"
    /\ LET pre == buffer \o wire \o ScriptBytes(Script(in), FIRST_DIV)
       IN \E r \in {find_baud_rate_divisor(buffer, wire, rate, baud_rate,
                                           Script(in), Patient(pre))} :
          /\ nops' = nops + 1
          /\ buffer' = r.buffer
          /\ wire' = r.wire
          /\ rate' = r.rate
          /\ baud_rate' = r.baud_rate
          /\ last' = [NoCall EXCEPT !.op = "find_baud_rate_divisor",
                         !.ret = r.ret, !.preq = buffer, !.in = in,
                         !.orig = <<baud_rate>>, !.out = r.tried]
          /\ resume' = NoResume
          /\ UNCHANGED arrived

\* The session under a caller that maintains it.
NextMaint ==
    \/ \E in \in ResetInputs : Reset(in)
    \/ \E in \in SearchInputs : FindBaudRateDivisor(in)

SpecMaint == Init /\ [][NextMaint]_vars

\* --------------------------------------- environment of the value decoders

\* The pure decoders start from a pair of bytes, every pair there is.
InitPure ==
    /\ buffer = <<>>
    /\ wire = <<>>
    /\ resume = NoResume
    /\ nops = 0
    /\ arrived = 0
    /\ rate = INITIAL_BAUD
    /\ baud_rate = INITIAL_BAUD
    /\ \E hi \in 0..(U8_RANGE - 1) : \E lo \in 0..(U8_RANGE - 1) :
          last = [NoCall EXCEPT !.op = "input", !.in = <<hi, lo>>]

\* A decoder applied to the pair of the start.
Apply(name, value) ==
    /\ last.op = "input"
    /\ last' = [last EXCEPT !.op = name, !.out = value]
    /\ UNCHANGED <<buffer, wire, resume, nops, arrived, rate, baud_rate>>

\* The pair as a u16 made a Dtc and rendered (get_freeze_frame_dtc on a
\* payload of the two bytes).
RenderDtc == Apply("dtc", DtcDisplay(DtcFrom(from_be_bytes(last.in))))

\* The payloads of get_dtc_info made of the pair: the pair as bytes 0 and 1,
\* as bytes 2 and 3, and payloads that are not 4 bytes long.
InfoShapes == {"head", "tail", "none", "short", "long"}

InfoPayload(shape, x, y) ==
    CASE shape = "head" -> <<x, y, 1, 2>>
      [] shape = "tail" -> <<161, 35, x, y>>
      [] shape = "none" -> <<>>
      [] shape = "short" -> <<x, y, y>>
      [] OTHER -> <<x, y, y, x, x>>

\* The responses of one or two ECUs, the payload of the pair the last.
InfoResponses(shape, two, x, y) ==
    (IF two THEN <<<<129, 8, 0, 1>>>> ELSE <<>>)
    \o <<InfoPayload(shape, x, y)>>

\* get_dtc_info once obd_command returned the responses; the payloads of
\* another length and the replies of two ECUs are tried on 256 of the pairs.
DecodeDtcsInfo(shape, two) ==
    /\ (shape \notin {"head", "tail"} \/ two) => last.in[1] = 0
    /\ Apply("get_dtc_info",
             [shape |-> shape, two |-> two,
              ret |-> dtcs_info_result(
                          Ok(InfoResponses(shape, two, last.in[1], last.in[2])))])

\* The integer transforms on the byte of a one-byte payload, the second of
\* the pair.
GetEngineCoolantTemperature ==
    /\ last.in[1] = 0
    /\ Apply("get_engine_coolant_temperature", temperature(last.in[2]))

GetIntakeAirTemperature ==
    /\ last.in[1] = 0
    /\ Apply("get_intake_air_temperature", temperature(last.in[2]))

GetFuelPressure ==
    /\ last.in[1] = 0
    /\ Apply("get_fuel_pressure", fuel_pressure(last.in[2]))

\* The request bytes made of the pair: service and parameter, or the
\* service alone.
RequestBytes(param) == IF param THEN last.in ELSE <<last.in[2]>>

\* send_cmd of the request on an idle session, the adapter echoing the text
\* it received; the requests of a service alone are tried with the second
\* byte of the pair.
EncodeRequest(param) ==
    /\ ~param => last.in[1] = 0
    /\ \E r \in {send_cmd(<<>>, <<>>, RequestBytes(param),
                          HexText(RequestBytes(param)) \o <<CR>>,
                          (2 * Len(RequestBytes(param))) + 2)} :
          Apply("send_cmd", [data |-> RequestBytes(param), ret |-> r.ret,
                             ev |-> r.ev])

NextPure ==
    \/ RenderDtc
    \/ \E param \in BOOLEAN : EncodeRequest(param)
    \/ GetEngineCoolantTemperature
    \/ GetIntakeAirTemperature
    \/ GetFuelPressure
    \/ \E shape \in InfoShapes : \E two \in BOOLEAN : DecodeDtcsInfo(shape, two)

SpecPure == InitPure /\ [][NextPure]_vars

\* ---------------------------------------------- environment of the replies

\* A further call may be made: the bound is not reached, and no call has
\* panicked.
Readable == nops < MaxReads /\ last.ret.tag # "Panic"

\* The tokens of a reply line: 41, 0C, and tokens that are not two hex
\* digits: A, 00A, +A, -1, NO, DATA, 100, ff, +1F, G1, 0+.
Tokens ==
    {<<52, 49>>, <<48, 67>>, <<65>>, <<48, 48, 65>>, <<43, 65>>, <<45, 49>>,
     <<78, 79>>, <<68, 65, 84, 65>>, <<49, 48, 48>>, <<102, 102>>,
     <<43, 49, 70>>, <<71, 49>>, <<48, 43>>}

\* The reply bodies: a line of one token or of two; two lines; a line of
\* spaces between two lines; tokens two spaces apart; nothing; and lines
\* that start with an index: 0 and 1 in order, 1 alone, A alone, 0 with no
\* bytes.
ReplyBodies ==
    {t \o <<SPACE, CR>> : t \in Tokens}
    \cup {t1 \o <<SPACE>> \o t2 \o <<SPACE, CR>> : t1 \in Tokens, t2 \in Tokens}
    \cup {<<52, 49, SPACE, 48, 67, SPACE, CR, 52, 49, SPACE, 48, 68, SPACE, CR>>,
          <<52, 49, SPACE, CR, SPACE, SPACE, CR, 48, 67, SPACE, CR>>,
          <<52, 49, SPACE, SPACE, 48, 67, CR>>,
          <<>>,
          <<48, COLON, SPACE, 52, 49, SPACE, CR, 49, COLON, SPACE, 48, 67, SPACE, CR>>,
          <<49, COLON, SPACE, 52, 49, SPACE, CR>>,
          <<65, COLON, SPACE, 52, 49, SPACE, CR>>,
          <<52, 49, SPACE, 49, 48, COLON, CR>>,
          <<48, COLON, CR>>}

\* What the adapter sends after the request 010C: the echo, a reply body,
\* the empty line and the prompt.
ReplyOuts ==
    {HexText(<<1, 12>>) \o <<CR>> \o b \o <<CR, PROMPT>> : b \in ReplyBodies}

\* The class and the token lists of the reply text, when there is one.
ParsedReply(response) ==
    IF response = None THEN [multi |-> FALSE, data |-> Err("Other")]
    ELSE [multi |-> is_multiline(response[1]),
          data |-> parse_lines(response[1])]

\* A call of Obd2::command for service 01 PID 0C with the adapter's answer
\* out.  A call that reached todo!() has unwound the caller.
Command(out) ==
    /\ Readable
    /\ \E r \in {command(buffer, wire, <<1, 12>>, out,
                         Patient(buffer \o wire \o out))} :
          /\ nops' = nops + 1
          /\ buffer' = r.buffer
          /\ wire' = r.wire
          /\ last' = [NoCall EXCEPT !.op = "command", !.ret = r.ret,
                         !.ev = r.ev, !.response = r.response,
                         !.out = ParsedReply(r.response),
                         !.pre = buffer \o wire \o out, !.preq = buffer]
          /\ resume' = NoResume
          /\ UNCHANGED <<arrived, rate, baud_rate>>

\* The dispatcher under a caller that reads replies of every kind.
NextReply ==
    \/ \E out \in ReplyOuts : Command(out)

SpecReply == Init /\ [][NextReply]_vars

\* ------------------------------------------ environment of the accessors

\* The reply of the ECUs that answer the payloads ps under the envelope env:
\* one line each, then the empty line.
RECURSIVE PayloadLines(_, _)
PayloadLines(env, ps) ==
    IF ps = <<>> THEN <<CR>>
    ELSE HexLine(env \o Head(ps)) \o <<SPACE, CR>> \o PayloadLines(env, Tail(ps))

\* The payloads of one ECU, or of two.
OneOrTwo(P) == {<<p>> : p \in P} \cup {<<p1, p2>> : p1 \in P, p2 \in P}

\* What the adapter sends after the text of an accessor's request: the echo,
\* the lines of the ECUs and the prompt; NO DATA; a changed echo; a reply
\* whose prompt does not come.
AccessorOuts(text, env, P) ==
    {text \o <<CR>> \o PayloadLines(env, ps) \o <<PROMPT>> : ps \in OneOrTwo(P)}
    \cup {text \o <<CR>> \o NoData \o <<CR, CR, PROMPT>>,
          Garble(text, 1) \o <<CR>> \o HexLine(env) \o <<CR, PROMPT>>,
          text \o <<CR>> \o HexLine(env) \o <<CR>>}

\* The payloads of service 09 PID 02: 01 "ABC", the same at other lengths,
\* an empty one, and a remainder that is no UTF-8 text.
VinPayloads ==
    {<<1, 65, 66, 67>>, <<1>>, <<>>, <<1, 255>>, <<65>>, <<0, 66, 67>>,
     <<1, 65, 255, 67>>}

\* The reply to 0902 as the adapter sends a long one: the length line and
\* the indexed lines of the frame 49 02 01 "ABC".
VinMultiline ==
    HexText(<<9, 2>>)
    \o <<CR, 48, 48, 54, CR>>
    \o <<48, COLON, SPACE>> \o HexLine(<<73, 2, 1, 65>>) \o <<SPACE, CR>>
    \o <<49, COLON, SPACE>> \o HexLine(<<66, 67>>) \o <<SPACE, CR, CR, PROMPT>>

VinOuts ==
    AccessorOuts(HexText(<<9, 2>>), <<73, 2>>, VinPayloads) \cup {VinMultiline}

\* The payloads of service 03: the variant 0 with no, one and two pairs and
\* with a byte over, the first bytes 1, 2, 3, 4 and 255, the empty payload.
DtcPayloads ==
    {<<>>, <<0>>, <<0, 1, 67>>, <<0, 65, 128>>, <<0, 1>>,
     <<0, 193, 0, 129, 64>>, <<1, 1, 2>>, <<2>>, <<3, 0, 0>>, <<4, 0, 0>>,
     <<255>>}

DtcOuts == AccessorOuts(HexText(<<3>>), <<67>>, DtcPayloads)

\* The payloads of service 01 PID 0C: two bytes, and fewer and more.
RpmPayloads ==
    {<<26, 248>>, <<>>, <<26>>, <<26, 248, 0>>, <<0, 0>>, <<255, 255>>,
     <<0, 1>>, <<1, 0>>, <<0, 6>>}

RpmOuts == AccessorOuts(HexText(<<1, 12>>), <<65, 12>>, RpmPayloads)

\* A call of the accessor name whose outcome is r.  A call that panicked has
\* unwound the caller: nothing follows it.
Access(name, r, pre) ==
    /\ nops' = nops + 1
    /\ buffer' = r.buffer
    /\ wire' = r.wire
    /\ last' = [NoCall EXCEPT !.op = name, !.ret = r.ret, !.ev = r.ev,
                   !.payloads = r.payloads, !.pre = pre, !.preq = buffer]
    /\ resume' = NoResume
    /\ UNCHANGED <<arrived, rate, baud_rate>>

GetVin(out) ==
    /\ Readable
    /\ \E r \in {get_vin(buffer, wire, out, Patient(buffer \o wire \o out))} :
          Access("get_vin", r, buffer \o wire \o out)

GetDtcs(out) ==
    /\ Readable
    /\ \E r \in {get_dtcs(buffer, wire, out, Patient(buffer \o wire \o out))} :
          Access("get_dtcs", r, buffer \o wire \o out)

GetRpm(out) ==
    /\ Readable
    /\ \E r \in {get_rpm(buffer, wire, out, Patient(buffer \o wire \o out))} :
          Access("get_rpm", r, buffer \o wire \o out)

\* The accessors under a caller that reads the VIN, the DTCs and the RPM.
NextValues ==
    \/ \E out \in VinOuts : GetVin(out)
    \/ \E out \in DtcOuts : GetDtcs(out)
    \/ \E out \in RpmOuts : GetRpm(out)

SpecValues == Init /\ [][NextValues]_vars

\* ------------------------------------------------------- claims: the framer

ReadOps == {"get_line", "get_response"}
SendOps == {"send_cmd", "cmd"}

\* C1: when a read_until call times out with bytes accumulated, it returns
\* None and the accumulated bytes are at the front of the receive queue in
\* their arrival order, ahead of the bytes that were still queued.
C1_PushBackInOrder ==
    (last.op \in ReadOps /\ last.timedOut /\ last.acc # <<>>)
        => /\ last.ret = Ok(None)
           /\ buffer = last.acc \o last.remq

\* One read_until over a whole stream by a framer with an empty queue, whose
\* deadline does not pass while bytes are left.
Uninterrupted(stream, end_byte) ==
    get_until(<<>>, stream, end_byte, end_byte = PROMPT, Patient(stream)).ret.val

\* C2: a read_until call that follows a timed-out call with the same
\* terminator and returns a chunk returns the chunk that one uninterrupted
\* read_until over the same stream returns.
C2_ResumeEqualsUninterrupted ==
    (last.op \in ReadOps /\ last.resumed /\ last.ret.val # None)
        => last.ret.val = Uninterrupted(last.orig, last.end_byte)

\* A non-empty run of ordinary bytes: no CR, no LF, no NUL.
Ordinary(x) == x # <<>> /\ \A i \in 1..Len(x) : x[i] \notin {CR, LF, NUL}

\* stream is a non-empty ordinary content followed by exactly term.
EndsWith(stream, term) ==
    /\ Len(stream) > Len(term)
    /\ SubSeq(stream, Len(stream) - Len(term) + 1, Len(stream)) = term
    /\ Ordinary(SubSeq(stream, 1, Len(stream) - Len(term)))

Content(stream, term) == SubSeq(stream, 1, Len(stream) - Len(term))

\* A read_line by a framer whose queue was empty, with a deadline that does
\* not pass while bytes are left.
FreshLineRead == last.op = "get_line" /\ last.preq = <<>> /\ last.patient

\* C3 as stated: for a non-empty ordinary content X, each of the streams
\* X+CR, X+CR+LF and X+LF makes read_line return Some(X).
C3_AllTerminators ==
    \A term \in {<<CR>>, <<CR, LF>>, <<LF>>} :
        (FreshLineRead /\ EndsWith(last.pre, term))
            => last.ret = Ok(Some(Content(last.pre, term)))

\* C3 amended: the streams X+CR and X+CR+LF make read_line return Some(X);
\* a bare LF is dropped and ends no line, so X+LF makes read_line return None.
C3_CrTerminators ==
    /\ \A term \in {<<CR>>, <<CR, LF>>} :
           (FreshLineRead /\ EndsWith(last.pre, term))
               => last.ret = Ok(Some(Content(last.pre, term)))
    /\ (FreshLineRead /\ EndsWith(last.pre, <<LF>>)) => last.ret = Ok(None)

C3_Witness ==
    /\ FreshLineRead
    /\ last.pre = <<65, CR, LF>>
    /\ last.ret = Ok(Some(<<65>>))

\* ------------------------------------------------------ claims: the session

Writes(ev) == SelectSeq(ev, LAMBDA x : x.e = "write")

\* C4: a send returns Ok only when the line read back equals the sent text
\* byte for byte; for any other echoed line, or none, it returns a
\* Communication error, has written the command once and has not called
\* read_response.
C4_EchoChecked ==
    last.op \in SendOps =>
        /\ last.ret.tag = "Ok" => last.line = Some(last.text)
        /\ last.line # Some(last.text) =>
              /\ last.ret = Err("Communication")
              /\ Writes(last.ev) = <<WriteEv(last.text), WriteEv(<<CR, LF>>)>>
              /\ \A i \in 1..Len(last.ev) : last.ev[i].e # "get_response"

C4_Witness ==
    /\ last.op = "cmd"
    /\ last.text = <<48, 49, 48, 67>>
    /\ last.line = Some(<<48, 49, 48, 63>>)
    /\ last.ret = Err("Communication")

\* C5: a command exchange writes the command text, then CRLF, then reads the
\* echo with one read_line, and calls read_response once, after the echo
\* matched and not otherwise; it writes nothing else.
C5_ExchangeOrder ==
    last.op \in SendOps =>
        LET head == <<WriteEv(last.text), WriteEv(<<CR, LF>>), ReadEv("get_line")>>
        IN IF last.op = "cmd" /\ last.line = Some(last.text)
           THEN last.ev = Append(head, ReadEv("get_response"))
           ELSE last.ev = head

C5_Witness ==
    /\ last.op = "cmd"
    /\ Len(last.ev) = 4
    /\ last.ret = Ok(Some(<<52, LF, LF, 65, LF>>))

\* C6: after a send that failed with a communication error, the next cmd
\* whose text the adapter echoes verbatim and answers up to the prompt
\* succeeds and returns that reply.
C6_NextSendSucceeds ==
    (last.op = "cmd" /\ last.afterComm /\ last.prompt
       /\ last.echo = last.text \o <<CR>>)
        => last.ret = Ok(Some(Normalize(last.reply)))

\* --------------------------------------------------- claims: the dispatcher

\* A result returned to the caller that is an error.
IsError(ret) == ret.tag \in {"Device", "Other", "IncorrectResponseLength"}

\* The envelope a response to the last request has to start with.
Envelope ==
    IF last.op = "obd_command" THEN <<ResponseMode(last.mode), last.pid>>
    ELSE <<ResponseMode(last.mode)>>

\* response starts with the envelope env.
HasEnvelope(response, env) ==
    Len(response) >= Len(env) /\ SubSeq(response, 1, Len(env)) = env

\* The last call parsed the reply into ECU responses.
Parsed == last.op \in ObdOps /\ last.parsed.tag = "Ok"

\* C7: when some ECU response does not start with 0x40|mode (and the pid,
\* for obd_command), or is too short to, the call returns an error result:
\* the response is not accepted, not dropped, and the call does not panic.
C7_MismatchIsError ==
    (Parsed /\ \E i \in 1..Len(last.parsed.val) :
                   ~HasEnvelope(last.parsed.val[i], Envelope))
        => IsError(last.ret)

\* C8: when every ECU response carries the envelope, the call returns, in
\* the order received, each response without its envelope bytes, one payload
\* per parsed response.
C8_EnvelopeStripped ==
    (Parsed /\ \A i \in 1..Len(last.parsed.val) :
                   HasEnvelope(last.parsed.val[i], Envelope))
        => /\ last.ret.tag = "Ok"
           /\ Len(last.ret.val) = Len(last.parsed.val)
           /\ \A i \in 1..Len(last.parsed.val) :
                  Envelope \o last.ret.val[i] = last.parsed.val[i]

C8_Witness ==
    /\ last.op = "obd_command"
    /\ last.parsed = Ok(<<<<65, 12>>, <<65, 12, 26, 248>>>>)
    /\ last.ret = Ok(<<<<>>, <<26, 248>>>>)

\* The reply of the last call, made with an empty receive queue, came back
\* as text and was classified multi-line, the adapter having numbered its
\* lines last.idxs.
MultiLineReply ==
    /\ last.op \in ObdOps
    /\ last.preq = <<>>
    /\ last.response # None
    /\ last.idxs # <<>>

InOrder(idxs) == \A k \in 1..Len(idxs) : idxs[k] = (k - 1) % IDX_MOD

\* C9: a multi-line reply whose line indices run 0,1,2,... modulo 16 is
\* parsed into one response, the bytes of its lines concatenated in line
\* order; a reply with any other index makes the call return an error
\* result.
C9_MultiLineInOrderOrError ==
    MultiLineReply =>
        IF InOrder(last.idxs) THEN last.parsed = Ok(<<last.frame>>)
        ELSE IsError(last.ret)

\* The text holds no token: only spaces and newlines.
Blank(text) == \A i \in 1..Len(text) : text[i] \in {SPACE, LF}

\* C10: a call that returns success returns at least one response; a reply
\* that holds no response makes the call return an error.
C10_NeverEmptySet ==
    last.op \in ObdOps =>
        /\ last.ret.tag = "Ok" => Len(last.ret.val) >= 1
        /\ (last.response # None /\ Blank(last.response[1])) => IsError(last.ret)

C10_Witness ==
    /\ last.op = "obd_command"
    /\ last.response = Some(<<LF>>)
    /\ last.ret = Err("Other")

\* The first half of C9 alone: an in-order multi-line reply is parsed into
\* the one response that concatenates the bytes of its lines.
C9_InOrderConcatenated ==
    (MultiLineReply /\ InOrder(last.idxs)) => last.parsed = Ok(<<last.frame>>)

C9_Witness ==
    /\ MultiLineReply
    /\ Len(last.idxs) = IDX_MOD + 1
    /\ last.parsed = Ok(<<<<65, 12, 1, 65>>>>)

\* ----------------------------------------------------- claims: the decoders

\* The last call is a decoder call whose reply came back as text.
Decoded == last.op \in DecodeOps /\ last.response # None

\* C11 as claimed: a decoder of nonzero width whose reply is empty (the
\* prompt right after the echo) fails with IncorrectResponseLength.
C11_EmptyReplyIsShapeError ==
    (Decoded /\ last.len > 0 /\ last.response = Some(<<>>)) =>
        last.ret.tag = "IncorrectResponseLength"

\* C11 amended: a decoder of nonzero width whose reply is empty fails with
\* Error::Other, the error of parse_command for a reply without responses;
\* it never returns a value.
C11_EmptyReplyIsOther ==
    (Decoded /\ last.len > 0 /\ last.response = Some(<<>>)) =>
        last.ret = Err("Other")

C11_Witness ==
    /\ last.op = "obd_command_cnt_len"
    /\ last.len = 2
    /\ last.count = 1
    /\ last.response = Some(<<>>)
    /\ last.ret = Err("Other")

\* C12: obd_command_len::<N> returns success only when every payload has
\* exactly N bytes, and then returns the payloads; when some payload has
\* another length it returns IncorrectResponseLength("length", N, k), k the
\* length of the first such payload in arrival order.
C12_LengthChecked ==
    (last.op \in DecodeOps /\ last.payloads.tag = "Ok") =>
        LET p == last.payloads.val
        IN /\ last.ret.tag = "Ok" =>
                /\ \A i \in 1..Len(p) : Len(p[i]) = last.len
                /\ last.ret.val = p
           /\ \A i \in 1..Len(p) :
                (/\ Len(p[i]) # last.len
                 /\ \A j \in 1..(i - 1) : Len(p[j]) = last.len)
                => last.ret = IncorrectResponseLength("length", last.len, Len(p[i]))

C12_Witness ==
    /\ last.op = "obd_command_len"
    /\ last.len = 1
    /\ last.payloads = Ok(<<<<>>, <<26, 248>>>>)
    /\ last.ret = IncorrectResponseLength("length", 1, 0)

\* The number of ECU responses in the reply of the last call: the responses
\* parsed, none for a reply that holds no token.
Responders == IF last.parsed.tag = "Ok" THEN Len(last.parsed.val) ELSE 0

\* C13 as claimed: a reply with fewer responses than obd_command_cnt_len
\* expects fails with IncorrectResponseLength("count", COUNT, n), n the number
\* of responses in the reply.
C13_FewerIsCountError ==
    (/\ last.op = "obd_command_cnt_len"
     /\ last.response # None
     /\ last.parsed.tag = "Ok" \/ Blank(last.response[1])
     /\ Responders < last.count)
    => last.ret = IncorrectResponseLength("count", last.count, Responders)

\* C13 amended: when the reply has n >= 1 responses, each with the envelope
\* of the request and exactly LEN payload bytes, obd_command_cnt_len fails
\* with IncorrectResponseLength("count", COUNT, n) if n is not COUNT and
\* returns the payloads if it is; a reply without responses fails with
\* Error::Other.
C13_CountChecked ==
    last.op = "obd_command_cnt_len" =>
        /\ (/\ last.payloads.tag = "Ok"
            /\ \A i \in 1..Len(last.payloads.val) :
                  Len(last.payloads.val[i]) = last.len)
           => last.ret = IF Len(last.payloads.val) # last.count
                         THEN IncorrectResponseLength("count", last.count,
                                                      Len(last.payloads.val))
                         ELSE last.payloads
        /\ (last.response # None /\ Blank(last.response[1]))
           => last.ret = Err("Other")

C13_Witness ==
    /\ last.op = "obd_command_cnt_len"
    /\ last.count = 2
    /\ last.len = 2
    /\ last.payloads = Ok(<<<<26, 248>>>>)
    /\ last.ret = IncorrectResponseLength("count", 2, 1)

\* The reply of the last call holds the lines of two ECU responses or more.
SeveralResponses ==
    LET lines == Split(last.response[1], LF)
    IN Cardinality({i \in 1..Len(lines) : ~Blank(lines[i])}) >= 2

\* Some response of the last decoder call fails a validation: the reply does
\* not parse into bytes, a response lacks the envelope of the request, or a
\* payload has not the length asked for.
SomeResponseFails ==
    \/ last.parsed.tag # "Ok"
    \/ /\ last.parsed.tag = "Ok"
       /\ \E i \in 1..Len(last.parsed.val) :
             ~HasEnvelope(last.parsed.val[i], <<ResponseMode(last.mode), last.pid>>)
    \/ /\ last.payloads.tag = "Ok"
       /\ \E i \in 1..Len(last.payloads.val) :
             Len(last.payloads.val[i]) # last.len

\* C14: when some response of the reply fails envelope validation, hex
\* parsing or shape validation, the whole call returns an error: no value
\* decoded from another response is returned, and the call does not panic.
C14_NoPartialResult ==
    (Decoded /\ SeveralResponses /\ SomeResponseFails) => IsError(last.ret)

\* ------------------------------------------- claims: the framer's outcomes

\* What the transport held when the last read was called.
PreWire == SubSeq(last.pre, Len(last.preq) + 1, Len(last.pre))

\* The failing reads a stream holds.
Fails(w) == Cardinality({i \in 1..Len(w) : w[i] = FAIL})

\* The least index of a byte of s that is in the set B, or 0.
FirstIn(s, B) ==
    LET hits == {i \in 1..Len(s) : s[i] \in B}
    IN IF hits = {} THEN 0 ELSE CHOOSE i \in hits : \A j \in hits : i <= j

\* The bytes that get_until takes for end_byte.
Terminators(end_byte) == IF end_byte = LF THEN {CR} ELSE {end_byte}

\* C15: a read returns Ok or the transport's error, nothing else.  It returns
\* the error exactly when a read() of the transport failed during the call,
\* and then nothing after the failed read has been read: the transport holds
\* what followed it.  With no failing read and no terminator in the stream
\* the call returns Ok(None).
C15_TimeoutNoneErrorPropagated ==
    last.op \in ReadOps =>
        /\ last.ret.tag \in {"Ok", "IO"}
        /\ last.ret.tag = "IO" <=> Fails(last.postw) < Fails(PreWire)
        /\ last.ret.tag = "IO" =>
              /\ last.ret = Err("IO")
              /\ last.postw = SubSeq(PreWire, FirstIn(PreWire, {FAIL}) + 1,
                                     Len(PreWire))
        /\ (/\ Fails(PreWire) = 0
            /\ FirstIn(last.pre, Terminators(last.end_byte)) = 0)
           => last.ret = Ok(None)

C15_Witness ==
    /\ last.op = "get_line"
    /\ last.pre = <<65, FAIL, CR>>
    /\ last.ret = Err("IO")
    /\ last.postw = <<CR>>

\* C16: a read returns within the timeout budget counted from the start of
\* the call, the restarts after empty lines included.
C16_WithinBudget ==
    last.op \in ReadOps => last.spent <= last.fuel

\* The first non-empty line of the normalised stream n, with the newline that
\* ends it, as an Option.
FirstLine(n) ==
    LET i == FirstIn(n, {b \in 0..255 : b # LF})
        rest == SubSeq(n, i, Len(n))
        j == FirstIn(rest, {LF})
    IN IF i = 0 \/ j = 0 THEN None ELSE Some(SubSeq(rest, 1, j - 1))

\* C17: get_line returns None or a line of at least one byte, and with time
\* enough it returns the first non-empty line of the stream, whatever the
\* number of empty lines before it; get_response with time enough returns
\* Some(empty) when the first byte that counts is the prompt.
C17_NoEmptyLine ==
    /\ last.op = "get_line" =>
          /\ last.ret.tag = "Ok"
          /\ last.ret.val = None \/ Len(last.ret.val[1]) >= 1
          /\ last.patient => last.ret.val = FirstLine(Normalize(last.pre))
    /\ (/\ last.op = "get_response"
        /\ last.patient
        /\ Normalize(last.pre) # <<>>
        /\ Head(Normalize(last.pre)) = PROMPT)
       => last.ret = Ok(Some(<<>>))

C17_Witness ==
    /\ last.op = "get_line"
    /\ last.pre = <<CR, 65, CR>>
    /\ last.ret = Ok(Some(<<65>>))

\* C18: a chunk returned does not hold the terminator of its read, and after
\* a get_response that returned a chunk the queue and the transport hold
\* what followed the first prompt of the stream: the prompt is consumed.
C18_TerminatorStripped ==
    (last.op \in ReadOps /\ last.ret.val # None) =>
        /\ \A i \in 1..Len(last.ret.val[1]) : last.ret.val[1][i] # last.end_byte
        /\ last.op = "get_response" =>
              last.remq \o last.postw =
                  SubSeq(last.pre, FirstIn(last.pre, {PROMPT}) + 1, Len(last.pre))

C18_Witness ==
    /\ last.op = "get_response"
    /\ last.pre = <<65, PROMPT, 65>>
    /\ last.ret = Ok(Some(<<65>>))
    /\ last.remq \o last.postw = <<65>>

\* ---------------------------------------------- claims: session maintenance

\* The events of a send_serial_str of text.
SendEvents(text) ==
    <<WriteEv(text), WriteEv(<<CR, LF>>), ReadEv("get_line")>>

\* The phases of reset in their order, as events.
ResetOrder ==
    <<PurgeEv>>
    \o SendEvents(ATZ) \o <<ReadEv("get_response")>>
    \o <<SleepEv(SETTLE_MS)>>
    \o SendEvents(ATSP0) \o <<ReadEv("get_response")>>
    \o SendEvents(<<48, 49, 48, 48>>) \o <<ReadEv("get_response")>>
    \o <<PurgeEv>>

\* C20: the events of every reset are the phases purge, ATZ and its reply up
\* to the prompt, the sleep, ATSP0, the probe 0100, purge, in this order up
\* to the phase that failed; reset returns Ok only after all of them, the
\* last purge included, and does return Ok when none of them failed.
C20_ResetOrder ==
    last.op = "reset" =>
        /\ Len(last.ev) <= Len(ResetOrder)
        /\ last.ev = SubSeq(ResetOrder, 1, Len(last.ev))
        /\ last.ret.tag = "Ok" => (last.ev = ResetOrder /\ last.in.purge2)
        /\ last.ret.tag # "Ok"
               => last.ret.tag \in {"Communication", "Ftdi", "IO"}

C20_Witness ==
    /\ last.op = "reset"
    /\ last.ret = Ok(None)
    /\ last.ev = ResetOrder
    /\ wire = <<>>

\* The divisors of the search that was called last, in the order of their
\* turns, and the baud_rate the session had recorded before the call.
Tried == last.out
BaudBefore == last.orig[1]

\* The search returned the divisor div: its turn was the last one, the
\* adapter accepted the command, sent the banner at the new rate and
\* acknowledged with OK.
Negotiated(div) ==
    /\ last.ret = Ok(Some(<<div, new_baud(div)>>))
    /\ Tried # <<>>
    /\ Tried[Len(Tried)] = div
    /\ Script(last.in)[div] = Turn("banner", div)
    /\ baud_rate = new_baud(div)

\* C37: every call of find_baud_rate_divisor returns after the turns of at
\* most the 14 divisors 90..103, taken in increasing order from 90; the
\* recorded baud_rate differs from the one before the call only when the
\* call returned a divisor whose turn had the adapter answer OK, send the
\* banner at the new rate and acknowledge, and is the one before the call
\* on every other return.
C37_SearchBoundedRateKept ==
    last.op = "find_baud_rate_divisor" =>
        /\ Len(Tried) <= END_DIV - FIRST_DIV
        /\ \A i \in 1..Len(Tried) : Tried[i] = FIRST_DIV + i - 1
        /\ last.ret = Ok(None) => Len(Tried) = END_DIV - FIRST_DIV
        /\ \/ baud_rate = BaudBefore
              /\ (last.ret.tag # "Ok" \/ last.ret.val = None)
           \/ \E div \in FIRST_DIV..(END_DIV - 1) : Negotiated(div)

C37_Witness ==
    /\ last.op = "find_baud_rate_divisor"
    /\ last.in.with = "badbanner"
    /\ last.ret = Ok(None)
    /\ Tried = [i \in 1..(END_DIV - FIRST_DIV) |-> FIRST_DIV + i - 1]
    /\ baud_rate = BaudBefore
    /\ rate = baud_rate

\* What reset_ic gives in the reset that was called last, whose first purge
\* was carried out.
LastResetIc ==
    reset_ic(last.preq, <<>>, last.in.atz, Patient(last.pre))

\* The events of the phases of reset that follow reset_ic.
LaterPhases ==
    {SleepEv(SETTLE_MS), WriteEv(ATSP0), WriteEv(<<48, 49, 48, 48>>)}

\* C38: when the reset_ic phase of a reset fails, by a transport error or
\* an echo that does not match, reset returns that error and neither the
\* sleep, nor ATSP0, nor the probe, nor the last purge is issued: the
\* events of the call are the first purge and those of reset_ic, and the
\* queue and the transport are left as reset_ic left them.
C38_StopsAtFailedResetIc ==
    (last.op = "reset" /\ last.in.purge1 /\ LastResetIc.ret.tag # "Ok")
        => /\ last.ret = LastResetIc.ret
           /\ last.ret.tag \in {"Communication", "IO"}
           /\ last.ev = <<PurgeEv>> \o LastResetIc.ev
           /\ \A i \in 1..Len(last.ev) : last.ev[i] \notin LaterPhases
           /\ \A i \in 2..Len(last.ev) : last.ev[i] # PurgeEv
           /\ buffer = LastResetIc.buffer
           /\ wire = LastResetIc.wire

C38_Witness ==
    /\ last.op = "reset"
    /\ last.in.purge1
    /\ last.in.atz = <<FAIL>>
    /\ last.ret = Err("IO")
    /\ last.ev = <<PurgeEv>> \o SendEvents(ATZ)

\* C19: at every exit of find_baud_rate_divisor the rate the transport is
\* set to equals the baud_rate the session has recorded.
C19_RateRestored ==
    last.op = "find_baud_rate_divisor" => rate = baud_rate

\* ----------------------------------------------- claims: the value decoders

\* C21: a 16-bit value decoded into a Dtc and rendered is the letter of its
\* top 2 bits (P, C, B, U) followed by its bottom 14 bits as upper-case hex
\* of 3 digits at least.
C21_DtcRendering ==
    last.op = "dtc" =>
        LET v == from_be_bytes(last.in)
        IN last.out = <<Letters[(v \div 16384) + 1]>> \o UpperHex3(v % 16384)

\* The last entry of what get_dtc_info returned.
LastInfo == last.out.ret.val[Len(last.out.ret.val)]

\* C22: a payload of exactly 4 bytes b0..b3 gives the light = bit 7 of b0,
\* the count = bits 0..6 of b0, the compression flag = bit 3 of b1 and the
\* common tests = ((b1 and 0xF0) >> 1) or (b1 and 0x07), below 128; a payload
\* of another length makes the command return an error.
C22_DtcsInfoDecoded ==
    (last.op = "get_dtc_info" /\ last.out.shape # "tail") =>
        LET b0 == last.in[1]
            b1 == last.in[2]
            hi4 == b1 - (b1 % 16)
        IN IF last.out.shape = "head"
           THEN /\ last.out.ret.tag = "Ok"
                /\ Len(last.out.ret.val) = (IF last.out.two THEN 2 ELSE 1)
                /\ LastInfo.malfunction_indicator_light = (b0 >= 128)
                /\ LastInfo.dtc_count = (IF b0 >= 128 THEN b0 - 128 ELSE b0)
                /\ LastInfo.is_compression_engine = ((b1 % 16) >= 8)
                /\ LastInfo.common_test_availability
                      = (hi4 \div 2) + (IF (b1 % 16) >= 8 THEN (b1 % 16) - 8
                                        ELSE b1 % 16)
                /\ LastInfo.common_test_availability < 128
           ELSE last.out.ret.tag = "Other"

C22_Witness ==
    /\ last.op = "get_dtc_info"
    /\ last.out.shape = "head"
    /\ last.in = <<131, 253>>
    /\ last.out.ret.tag = "Ok"
    /\ LastInfo.malfunction_indicator_light
    /\ LastInfo.dtc_count = 3
    /\ LastInfo.is_compression_engine
    /\ LastInfo.common_test_availability = 125

\* C23: the specific test availability of get_dtc_info is the bytes 2 and 3
\* of the payload read big-endian, byte 2 the high-order byte.
C23_SpecificBigEndian ==
    (/\ last.op = "get_dtc_info"
     /\ last.out.shape = "tail") =>
        /\ last.out.ret.tag = "Ok"
        /\ LastInfo.specific_test_availability
              = (256 * last.in[1]) + last.in[2]

\* C30: for every raw byte v the temperatures are v - 40 (from -40 to 215)
\* and the fuel pressure is 3 * v (from 0 to 765), computed in 16 signed
\* bits without overflow.
C30_AffineNoOverflow ==
    /\ last.op \in {"get_engine_coolant_temperature",
                    "get_intake_air_temperature"} =>
          /\ ~last.out.overflow
          /\ last.out.val = last.in[2] - 40
          /\ last.out.val \in -40..215
    /\ last.op = "get_fuel_pressure" =>
          /\ ~last.out.overflow
          /\ last.out.val = 3 * last.in[2]
          /\ last.out.val \in 0..765

C30_Witness ==
    /\ last.op = "get_engine_coolant_temperature"
    /\ last.in = <<0, 90>>
    /\ last.out.val = 50

\* The payloads obd_command or obd_mode_command returned to the accessor.
Payloads == last.payloads.val

\* A payload of the DTC list as the claim accepts it: the first byte 0, the
\* bytes after it even in number.
WellFormedDtcs(p) == p # <<>> /\ p[1] = 0 /\ (Len(p) - 1) % 2 = 0

\* C24: get_dtcs returns an error when a payload does not start with 0 or
\* has an odd number of bytes after it, for every nonzero first byte and for
\* the empty payload; otherwise it returns, per payload, one entry per pair
\* of the remaining bytes, its category the top 2 bits of the second byte
\* of the pair, its code 0.
C24_DtcListDecoded ==
    (last.op = "get_dtcs" /\ last.payloads.tag = "Ok") =>
        IF \A i \in 1..Len(Payloads) : WellFormedDtcs(Payloads[i])
        THEN /\ last.ret.tag = "Ok"
             /\ Len(last.ret.val) = Len(Payloads)
             /\ \A i \in 1..Len(Payloads) :
                   /\ 2 * Len(last.ret.val[i]) = Len(Payloads[i]) - 1
                   /\ \A k \in 1..Len(last.ret.val[i]) :
                         /\ last.ret.val[i][k].n = 0
                         /\ last.ret.val[i][k].cat
                               = Categories[(Payloads[i][(2 * k) + 1] \div 64) + 1]
        ELSE last.ret.tag = "Other"

\* The two writes of a request whose text is text.
Requested(text) ==
    /\ Len(last.ev) >= 2
    /\ last.ev[1] = WriteEv(text)
    /\ last.ev[2] = WriteEv(<<13, 10>>)

\* C28: get_vin requests service 09 PID 02; of the response of a single ECU
\* it drops the first payload byte and returns the rest as text, or an
\* error when the rest is no UTF-8 text.
C28_VinDecoded ==
    last.op = "get_vin" =>
        /\ Requested(<<48, 57, 48, 50>>)
        /\ (/\ last.payloads.tag = "Ok"
            /\ Len(Payloads) = 1
            /\ Payloads[1] # <<>>) =>
              LET rest == SubSeq(Payloads[1], 2, Len(Payloads[1]))
              IN IF \A i \in 1..Len(rest) : rest[i] < 128
                 THEN last.ret = Ok(rest)
                 ELSE last.ret.tag = "Other"

C28_Witness ==
    /\ last.op = "get_vin"
    /\ last.payloads = Ok(<<<<1, 65, 66, 67>>>>)
    /\ last.ret = Ok(<<65, 66, 67>>)

\* C29: get_rpm requests service 01 PID 0C as the text "010C"; of payloads
\* of 2 bytes hi, lo it returns (256 * hi + lo) / 4, and a payload of another
\* length is a length error.
C29_RpmDecoded ==
    last.op = "get_rpm" =>
        /\ Requested(<<48, 49, 48, 67>>)
        /\ last.payloads.tag = "Ok" =>
              IF \A i \in 1..Len(Payloads) : Len(Payloads[i]) = 2
              THEN /\ last.ret.tag = "Ok"
                   /\ Len(last.ret.val) = Len(Payloads)
                   /\ \A i \in 1..Len(Payloads) :
                         /\ last.ret.val[i].quarters \in 0..3
                         /\ (4 * last.ret.val[i].whole) + last.ret.val[i].quarters
                               = (256 * Payloads[i][1]) + Payloads[i][2]
              ELSE /\ last.ret.tag = "IncorrectResponseLength"
                   /\ last.ret.val[1] = "length"
                   /\ last.ret.val[2] = 2

C29_Witness ==
    /\ last.op = "get_rpm"
    /\ last.payloads = Ok(<<<<26, 248>>>>)
    /\ last.ret = Ok(<<[whole |-> 1726, quarters |-> 0]>>)

\* The sixteen upper-case hex digits in the order of their values.
UpperDigits == <<48, 49, 50, 51, 52, 53, 54, 55, 56, 57, 65, 66, 67, 68, 69, 70>>

\* C25: send_cmd writes, for every service byte and optional parameter byte,
\* each byte as exactly two upper-case hex digits with no separator, and
\* then CRLF.
C25_RequestEncoded ==
    last.op = "send_cmd" =>
        LET data == last.out.data
            text == last.out.ev[1].bytes
        IN /\ last.out.ret = Ok(None)
           /\ last.out.ev[1].e = "write"
           /\ Len(text) = 2 * Len(data)
           /\ \A i \in 1..Len(data) :
                 /\ text[(2 * i) - 1] = UpperDigits[(data[i] \div 16) + 1]
                 /\ text[2 * i] = UpperDigits[(data[i] % 16) + 1]
           /\ last.out.ev[2] = [e |-> "write", bytes |-> <<13, 10>>]

C25_Witness ==
    /\ last.op = "send_cmd"
    /\ last.out.data = <<1, 12>>
    /\ last.out.ev[1].bytes = <<48, 49, 48, 67>>
    /\ last.out.ev[2].bytes = <<13, 10>>
    /\ last.out.ret = Ok(None)

\* C33: get_vin on a reply whose single response holds only the envelope,
\* so that its payload is empty, returns an error to the caller and does
\* not terminate abnormally.
C33_EmptyVinIsError ==
    (last.op = "get_vin" /\ last.payloads = Ok(<<<<>>>>))
        => last.ret.tag \in {"Device", "Other", "IncorrectResponseLength"}

\* The text of the request of the call made last.
RequestText ==
    IF last.op = "obd_command" THEN HexText(<<last.mode, last.pid>>)
    ELSE HexText(<<last.mode>>)

\* The call made last found the queue empty and read its own echo; what
\* the adapter sent after the echo line.
EchoedCleanly ==
    /\ last.op \in ObdOps
    /\ last.preq = <<>>
    /\ Len(last.pre) > Len(RequestText)
    /\ SubSeq(last.pre, 1, Len(RequestText) + 1) = RequestText \o <<CR>>

AfterEcho == SubSeq(last.pre, Len(RequestText) + 2, Len(last.pre))

\* The reply never ends: no prompt follows the echo.
ReplyMissing == \A i \in 1..Len(AfterEcho) : AfterEcho[i] # PROMPT

\* The reply up to its prompt holds a byte that is not UTF-8 text.
ReplyNotText ==
    \E i \in 1..Len(AfterEcho) :
        /\ AfterEcho[i] >= 128
        /\ \A j \in 1..i : AfterEcho[j] # PROMPT

\* C35: a command whose reply did not arrive never succeeds: when
\* read_response gave None, by a timeout or because the reply is not UTF-8
\* text, command and the request built on it return the error Other and
\* no response set, empty or partial; this is so for every reply that
\* lacks its prompt or holds a byte that is not text, and a request
\* returns Ok only when a reply was read.
C35_NoReplyIsError ==
    last.op \in ObdOps =>
        /\ (ReadEv("get_response") \in {last.ev[i] : i \in 1..Len(last.ev)}
               /\ last.response = None /\ last.parsed.tag # "Device")
              => (last.parsed = Err("Other") /\ last.ret = Err("Other"))
        /\ (EchoedCleanly /\ (ReplyMissing \/ ReplyNotText))
              => (last.response = None /\ last.parsed = Err("Other")
                  /\ last.ret = Err("Other"))
        /\ last.ret.tag = "Ok" => last.response # None

C35_Witness ==
    /\ EchoedCleanly
    /\ ReplyMissing
    /\ AfterEcho # <<>>
    /\ last.response = None
    /\ last.ret = Err("Other")

\* C36: a reply classified as multi-line never gives several responses:
\* the call returns an error result, or exactly one response in which the
\* length line, which holds no ':', gives no byte and the bytes after the
\* ':' of the indexed lines follow one another in the order in which the
\* lines arrived.
C36_MultiLineOneResponse ==
    (MultiLineReply /\ is_multiline(last.response[1]))
        => (last.parsed = Ok(<<last.frame>>) \/ IsError(last.parsed))

\* ------------------------------------------------------ claims: the replies

\* The text of the reply that command received.
ReplyText == last.response[1]

\* A token of exactly two hex digits.
TwoHexDigits(t) == Len(t) = 2 /\ HexVal(t[1]) >= 0 /\ HexVal(t[2]) >= 0

\* C26: command accepts a whitespace-separated token of the reply only if it
\* is exactly two hex digits, and returns it as that byte; any other token
\* (one digit, three digits, a sign, a word) makes command return an error.
C26_TokensTwoHexDigits ==
    (/\ last.op = "command"
     /\ last.response # None
     /\ ~last.out.multi
     /\ split_whitespace(ReplyText) # <<>>) =>
        LET toks == split_whitespace(ReplyText)
        IN IF \A i \in 1..Len(toks) : TwoHexDigits(toks[i])
           THEN /\ last.ret.tag = "Ok"
                /\ Concat(last.ret.val)
                      = [i \in 1..Len(toks) |->
                            (16 * HexVal(toks[i][1])) + HexVal(toks[i][2])]
           ELSE last.ret.tag = "Other"

\* The text without its spaces and newlines.
Squeezed(text) == SelectSeq(text, LAMBDA c : c \notin {SPACE, LF})

\* The lines of the text that hold a byte other than a space.
InkedLines(text) ==
    SelectSeq(Split(text, LF), LAMBDA l : \E i \in 1..Len(l) : l[i] # SPACE)

\* C27 as stated: the reply is handled as one multi-line response exactly
\* when its text holds some hex digit followed by ':'.
C27_AnyIndexIsMultiline ==
    (last.op = "command" /\ last.response # None) =>
        (last.out.multi <=> \E i \in 1..(Len(ReplyText) - 1) :
                               /\ HexVal(ReplyText[i]) >= 0
                               /\ ReplyText[i + 1] = 58)

\* C27, amended: the reply is handled as one multi-line response exactly
\* when its text holds "0:"; otherwise every line that holds a token becomes
\* one response, in line order, its tokens the runs between the spaces, and
\* a reply with no such line is an error.
C27_ZeroIndexIsMultiline ==
    (last.op = "command" /\ last.response # None) =>
        /\ last.out.multi <=> \E i \in 1..(Len(ReplyText) - 1) :
                                 ReplyText[i] = 48 /\ ReplyText[i + 1] = 58
        /\ (last.out.multi /\ last.out.data.tag = "Ok")
              => Len(last.out.data.val) = 1
        /\ ~last.out.multi =>
              IF InkedLines(ReplyText) = <<>> THEN last.out.data.tag = "Other"
              ELSE /\ last.out.data.tag = "Ok"
                   /\ Len(last.out.data.val) = Len(InkedLines(ReplyText))
                   /\ \A i \in 1..Len(last.out.data.val) :
                         /\ last.out.data.val[i] # <<>>
                         /\ Concat(last.out.data.val[i])
                               = Squeezed(InkedLines(ReplyText)[i])
                         /\ \A j \in 1..Len(last.out.data.val[i]) :
                               /\ last.out.data.val[i][j] # <<>>
                               /\ \A k \in 1..Len(last.out.data.val[i][j]) :
                                     last.out.data.val[i][j][k] # SPACE

\* A reply whose only line index is 1 is parsed line by line.
C27_Witness ==
    /\ last.op = "command"
    /\ last.response = Some(<<49, 58, SPACE, 52, 49, SPACE, LF, LF>>)
    /\ ~last.out.multi
    /\ last.out.data = Ok(<<<<<<49, 58>>, <<52, 49>>>>>>)

\* ------------------------------------------ environment of a timeout-free run

\* The record of a run of reads none of which timed out: clean says that no
\* read has timed out or failed so far, calls holds for every read its
\* name, its terminator, the chunk it returned and the bytes it took from
\* its input.  last.in is the stream received so far.
NoReads == [clean |-> TRUE, calls |-> <<>>]

InitOrder ==
    /\ buffer = <<>>
    /\ wire = <<>>
    /\ last = [NoCall EXCEPT !.out = NoReads]
    /\ resume = NoResume
    /\ nops = 0
    /\ arrived = 0
    /\ rate = INITIAL_BAUD
    /\ baud_rate = INITIAL_BAUD

\* The transport receives the byte b.
Receive(b) ==
    /\ arrived < MaxBytes
    /\ arrived' = arrived + 1
    /\ wire' = Append(wire, b)
    /\ last' = [last EXCEPT !.in = Append(@, b)]
    /\ UNCHANGED <<buffer, resume, nops, rate, baud_rate>>

\* A call of get_line or get_response whose deadline does not pass while
\* bytes are left, in a run in which no read has timed out.
ReadInOrder(name, end_byte) ==
    /\ last.out.clean
    /\ LET pre == buffer \o wire
       IN \E r \in {IF name = "get_line"
                    THEN get_line(buffer, wire, Patient(pre))
                    ELSE get_response(buffer, wire, Patient(pre))} :
          LET ok == r.ret.tag = "Ok" /\ r.ret.val # None
          IN /\ buffer' = r.buffer
             /\ wire' = r.wire
             /\ last' = [NoCall EXCEPT
                            !.op = name, !.end_byte = end_byte, !.ret = r.ret,
                            !.ev = <<ReadEv(name)>>, !.pre = pre,
                            !.preq = buffer, !.timedOut = r.ret = Ok(None),
                            !.postw = r.wire, !.in = last.in,
                            !.out = IF ok
                                    THEN [last.out EXCEPT !.calls =
                                            Append(@,
                                              [op |-> name,
                                               end_byte |-> end_byte,
                                               chunk |-> r.ret.val[1],
                                               raw |-> SubSeq(pre, 1,
                                                  Len(pre) - Len(r.buffer)
                                                  - Len(r.wire))])]
                                    ELSE [last.out EXCEPT !.clean = FALSE]]
             /\ UNCHANGED <<resume, nops, arrived, rate, baud_rate>>

\* The framer under a caller that reads while bytes arrive, followed up to
\* its first timeout.
NextOrder ==
    \/ \E b \in StreamBytes : Receive(b)
    \/ ReadInOrder("get_line", LF)
    \/ ReadInOrder("get_response", PROMPT)

SpecOrder == InitOrder /\ [][NextOrder]_vars

\* ------------------------------------------- environment of the receive queue

\* The steps of the session that use the transport without reading it.
QuietOps == {"write_all", "flush_buffers", "set_baud_rate"}

\* self.device.write_all(data) in send_serial_str: the queue is not used.
WriteAll(data) ==
    /\ last' = [NoCall EXCEPT !.op = "write_all", !.text = data,
                   !.ev = <<WriteEv(data)>>, !.pre = buffer \o wire,
                   !.preq = buffer]
    /\ UNCHANGED <<buffer, wire, resume, nops, arrived, rate, baud_rate>>

\* A call of flush_buffers; ok says whether the transport carries the
\* purge out.
FlushBuffers(ok) ==
    \E r \in {flush_buffers(buffer, wire, ok)} :
       /\ buffer' = r.buffer
       /\ wire' = r.wire
       /\ last' = [NoCall EXCEPT !.op = "flush_buffers", !.ret = r.ret,
                      !.ev = r.ev, !.pre = buffer \o wire, !.preq = buffer]
       /\ UNCHANGED <<resume, nops, arrived, rate, baud_rate>>

\* self.device.set_baud_rate(new) in find_baud_rate_divisor.
SetBaudRate(new) ==
    /\ rate' = new
    /\ last' = [NoCall EXCEPT !.op = "set_baud_rate",
                   !.pre = buffer \o wire, !.preq = buffer]
    /\ UNCHANGED <<buffer, wire, resume, nops, arrived, baud_rate>>

\* The session's steps on the queue and the transport while bytes arrive;
\* the deadline of a read passes only once no byte is left to read.
NextQueue ==
    \/ \E b \in StreamBytes : Arrive(b)
    \/ GetLine(Patient(buffer \o wire))
    \/ GetResponse(Patient(buffer \o wire))
    \/ \E text \in {ATZ, <<CR, LF>>} : WriteAll(text)
    \/ \E ok \in BOOLEAN : FlushBuffers(ok)
    \/ \E new \in {baud_rate, new_baud(FIRST_DIV)} : SetBaudRate(new)

SpecQueue == Init /\ [][NextQueue]_vars

\* ----------------------------------------------- claims: the framer's queue

\* The read made last returned a chunk.
Returned ==
    last.op \in ReadOps /\ last.ret.tag = "Ok" /\ last.ret.val # None

\* What the read made last left to the reads after it: the receive queue,
\* then what the transport held when it returned.
LeftOver == buffer \o last.postw

\* The number of bytes the read made last took from its input, the queue
\* followed by the transport.
Taken == Len(last.pre) - Len(LeftOver)

\* C32: a read that returns a chunk takes its input up to the terminator
\* that ends the chunk and nothing more: the byte taken last is the
\* terminator (a CR for read_line), every byte after it is left in its
\* place and order, the queued ones still in the queue, and what was taken
\* ends, once translated, with the chunk and its terminator.
C32_NothingPastTerminator ==
    Returned =>
        /\ Taken \in 1..Len(last.pre)
        /\ last.pre[Taken] \in Terminators(last.end_byte)
        /\ LeftOver = SubSeq(last.pre, Taken + 1, Len(last.pre))
        /\ Taken <= Len(last.preq)
              => /\ buffer = SubSeq(last.preq, Taken + 1, Len(last.preq))
                 /\ last.postw = PreWire
        /\ LET got == Normalize(SubSeq(last.pre, 1, Taken))
               chunk == last.ret.val[1] \o <<last.end_byte>>
           IN /\ Len(got) >= Len(chunk)
              /\ SubSeq(got, Len(got) - Len(chunk) + 1, Len(got)) = chunk

C32_Witness ==
    /\ Returned
    /\ last.op = "get_line"
    /\ last.pre = <<65, CR, PROMPT>>
    /\ last.ret = Ok(Some(<<65>>))
    /\ buffer = <<PROMPT>>
    /\ wire = <<>>

\* The reads of the run so far, none of which timed out.
Calls == last.out.calls

\* The returned chunks, each followed by its terminator, and the bytes the
\* reads took, both in the order of the calls.
Delivered ==
    Concat([i \in 1..Len(Calls) |-> Calls[i].chunk \o <<Calls[i].end_byte>>])

TakenSoFar == Concat([i \in 1..Len(Calls) |-> Calls[i].raw])

\* The reads took the received stream from its start, in arrival order,
\* and left the rest of it in the queue and the transport; no chunk holds
\* a NUL or a CR.
InArrivalOrder ==
    /\ last.in = TakenSoFar \o buffer \o wire
    /\ \A i \in 1..Len(Calls) : \A j \in 1..Len(Calls[i].chunk) :
           Calls[i].chunk[j] \notin {NUL, CR}

\* C34 as stated: in a run without timeouts the returned chunks, each
\* followed by its terminator, are the received stream up to the last
\* terminator taken, with NUL and LF removed and CR turned into a newline.
C34_ChunksAreTheStream ==
    last.out.clean =>
        /\ InArrivalOrder
        /\ Delivered = Normalize(TakenSoFar)

\* C34 amended: as above, but for the empty lines read_line skips: what a
\* read_line took is, translated, some newlines (the empty lines it
\* skipped), its chunk and the terminator; what a read_response took is its
\* chunk and the terminator.
C34_ChunksAreTheStreamButEmptyLines ==
    last.out.clean =>
        /\ InArrivalOrder
        /\ \A i \in 1..Len(Calls) :
              LET got == Normalize(Calls[i].raw)
                  chunk == Calls[i].chunk \o <<Calls[i].end_byte>>
                  skipped == Len(got) - Len(chunk)
              IN /\ skipped >= 0
                 /\ Calls[i].op = "get_response" => skipped = 0
                 /\ Calls[i].op = "get_line" => Calls[i].chunk # <<>>
                 /\ got = [k \in 1..skipped |-> LF] \o chunk

C34_Witness ==
    /\ last.out.clean
    /\ last.in = <<CR, 65, CR>>
    /\ Len(Calls) = 1
    /\ Calls[1].op = "get_line"
    /\ Calls[1].chunk = <<65>>
    /\ Calls[1].raw = <<CR, 65, CR>>

\* C31: only the read path changes the receive queue: write_all,
\* flush_buffers and set_baud_rate leave it as it was, and after a read
\* that timed out the bytes it had accumulated are in the queue as they
\* were, in their order and ahead of the bytes still queued, for the next
\* command to read.
C31_QueueChangedOnlyByReads ==
    /\ last.op \in QuietOps => buffer = last.preq
    /\ (last.op \in ReadOps /\ last.timedOut)
          => buffer = last.acc \o last.remq

====
